---- MODULE Spec2Model ----
(***************************************************************************)
(* Model of the normalization engine of the Smart Financial Parser        *)
(* (src/src/normalizer.py): normalize_date, normalize_merchant,           *)
(* normalize_amount, normalize_transaction and get_normalization_stats,   *)
(* and of the pipeline that feeds it (src/main.py, src/src/parser.py).    *)
(*                                                                         *)
(* A Python string is a sequence of one-character strings.  A Python      *)
(* value is a record tagged by "kind": None, str, int, Decimal, or a      *)
(* raised exception.  A Decimal is held as Python holds it: a sign, the   *)
(* coefficient's digits and an exponent.                                  *)
(***************************************************************************)
EXTENDS Integers, Sequences, FiniteSets, TLC

VARIABLES current_year, date, merchant, amount, pc, result

\* the pipeline: the input file, the parsed transactions, the normalized records,
\* the normalization statistics and the exit code of process_transactions
VARIABLES input_file, transactions, normalized_results, stats, exit_code

\* the pipeline's other arguments and locals: the requested output and report
\* files, the loop's position in the parsed transactions, the rows handed to
\* the writer, the files written and the analyzer the analysis returned
VARIABLES output_file, report_file, position, cleaned_transactions, written, analyzer

\* concurrent callers of normalize_transaction: each caller's position and locals,
\* the list objects the records' "errors" entries refer to, and the module-level
\* MERCHANT_CATEGORIES they all read
VARIABLES calls, heap, knowledge_base

callVars == <<date, merchant, amount, result>>
processVars == <<input_file, transactions, normalized_results, stats, exit_code,
                 output_file, report_file, position, cleaned_transactions,
                 written, analyzer>>
workerVars == <<calls, heap, knowledge_base>>

vars == <<current_year, date, merchant, amount, pc, result,
          input_file, transactions, normalized_results, stats, exit_code,
          output_file, report_file, position, cleaned_transactions,
          written, analyzer,
          calls, heap, knowledge_base>>

(***************************************************************************)
(* Python values                                                           *)
(***************************************************************************)
PyNone == [kind |-> "None"]
PyStr(s) == [kind |-> "str", val |-> s]
PyInt(n) == [kind |-> "int", val |-> n]
PyDecimal(sign, digits, exp) ==
    [kind |-> "Decimal", sign |-> sign, digits |-> digits, exp |-> exp]
PyRaise(exc) == [kind |-> "raise", exc |-> exc]

IsNone(v) == v.kind = "None"
IsStr(v) == v.kind = "str"
IsRaise(v) == v.kind = "raise"

\* bool(v) for the values the model holds
Truthy(v) ==
    CASE v.kind = "None" -> FALSE
      [] v.kind = "str" -> Len(v.val) > 0
      [] v.kind = "int" -> v.val # 0
      [] OTHER -> TRUE

(***************************************************************************)
(* Characters and strings                                                  *)
(***************************************************************************)
DigitChars == <<"0", "1", "2", "3", "4", "5", "6", "7", "8", "9">>
LowerChars == <<"a", "b", "c", "d", "e", "f", "g", "h", "i", "j", "k", "l", "m",
                "n", "o", "p", "q", "r", "s", "t", "u", "v", "w", "x", "y", "z">>
UpperChars == <<"A", "B", "C", "D", "E", "F", "G", "H", "I", "J", "K", "L", "M",
                "N", "O", "P", "Q", "R", "S", "T", "U", "V", "W", "X", "Y", "Z">>

Range(f) == {f[i] : i \in DOMAIN f}

IsDigit(c) == c \in Range(DigitChars)
IsLower(c) == c \in Range(LowerChars)
IsUpper(c) == c \in Range(UpperChars)
IsAlpha(c) == IsLower(c) \/ IsUpper(c)
IsSpace(c) == c \in {" ", "\t", "\n"}

DigitVal(c) == (CHOOSE i \in 1..10 : DigitChars[i] = c) - 1
DigitChar(n) == DigitChars[n + 1]

ToLowerChar(c) ==
    IF IsUpper(c) THEN LowerChars[CHOOSE i \in 1..26 : UpperChars[i] = c] ELSE c
ToUpperChar(c) ==
    IF IsLower(c) THEN UpperChars[CHOOSE i \in 1..26 : LowerChars[i] = c] ELSE c

\* str.lower(), str.upper()
Lower(s) == [i \in 1..Len(s) |-> ToLowerChar(s[i])]
Upper(s) == [i \in 1..Len(s) |-> ToUpperChar(s[i])]

\* s[i:] with a 1-based first index
From(s, i) == SubSeq(s, i, Len(s))

RECURSIVE LStrip(_)
LStrip(s) ==
    IF Len(s) > 0 /\ IsSpace(s[1]) THEN LStrip(Tail(s)) ELSE s

RECURSIVE RStrip(_)
RStrip(s) ==
    IF Len(s) > 0 /\ IsSpace(s[Len(s)]) THEN RStrip(SubSeq(s, 1, Len(s) - 1)) ELSE s

\* str.strip()
Strip(s) == RStrip(LStrip(s))

\* the characters of s that satisfy keep, in order (re.sub of a character class, str.replace of one character)
RECURSIVE RemoveChars(_, _)
RemoveChars(s, drop) ==
    IF Len(s) = 0 THEN <<>>
    ELSE IF s[1] \in drop THEN RemoveChars(Tail(s), drop)
    ELSE <<s[1]>> \o RemoveChars(Tail(s), drop)

Contains(s, c) == \E i \in 1..Len(s) : s[i] = c

\* every string over alphabet of length at most n
StringsUpTo(alphabet, n) == UNION {[1..k -> alphabet] : k \in 0..n}

\* str(v) as an f-string embeds it
RECURSIVE NatToDigits(_)
NatToDigits(n) ==
    IF n < 10 THEN <<DigitChar(n)>> ELSE NatToDigits(n \div 10) \o <<DigitChar(n % 10)>>

PyFormat(v) ==
    CASE v.kind = "str" -> v.val
      [] v.kind = "None" -> <<"N", "o", "n", "e">>
      [] v.kind = "int" -> NatToDigits(v.val)

(***************************************************************************)
(* decimal.Decimal: construction, quantize, comparison                    *)
(***************************************************************************)
\* the default context's precision
DecimalPrec == 28

RECURSIVE StripLeadingZeros(_)
StripLeadingZeros(ds) ==
    IF Len(ds) > 1 /\ ds[1] = 0 THEN StripLeadingZeros(Tail(ds)) ELSE ds

\* the coefficient as Decimal stores it: no leading zeros, "0" for zero
Coefficient(ds) == IF Len(ds) = 0 THEN <<0>> ELSE StripLeadingZeros(ds)

Zeros(n) == [i \in 1..n |-> 0]
AllZeros(ds) == \A i \in 1..Len(ds) : ds[i] = 0

\* str(int(coeff) + 1) on a digit sequence
RECURSIVE Increment(_)
Increment(ds) ==
    IF Len(ds) = 0 THEN <<1>>
    ELSE IF ds[Len(ds)] < 9 THEN [ds EXCEPT ![Len(ds)] = @ + 1]
    ELSE Increment(SubSeq(ds, 1, Len(ds) - 1)) \o <<0>>

\* Decimal(numeric_string) for a string "[-]digits[.[digits]]"
DecimalFromString(s) ==
    LET neg == Len(s) > 0 /\ s[1] = "-"
        body == IF neg THEN Tail(s) ELSE s
        dot == IF Contains(body, ".")
               THEN CHOOSE i \in 1..Len(body) : body[i] = "."
               ELSE Len(body) + 1
        int_part == SubSeq(body, 1, dot - 1)
        frac_part == SubSeq(body, dot + 1, Len(body))
        all == int_part \o frac_part
    IN  IF Len(all) = 0 \/ \E i \in 1..Len(all) : ~IsDigit(all[i])
        THEN PyRaise("InvalidOperation")
        ELSE PyDecimal(IF neg THEN 1 ELSE 0,
                       Coefficient([i \in 1..Len(all) |-> DigitVal(all[i])]),
                       -Len(frac_part))

\* Decimal._round_half_up(prec): 1 round away from zero, 0 exact, -1 truncate
RoundHalfUp(ds, prec) ==
    IF ds[prec + 1] >= 5 THEN 1
    ELSE IF AllZeros(From(ds, prec + 1)) THEN 0
    ELSE -1

ExactHalf(ds, prec) == ds[prec + 1] = 5 /\ AllZeros(From(ds, prec + 2))

\* a rounding that sends every half away from zero
RoundHalfEvenAsHalfUp(ds, prec) == RoundHalfUp(ds, prec)

\* Decimal._round_half_even(prec), the default context's rounding
RoundHalfEven(ds, prec) ==
    IF ExactHalf(ds, prec) /\ (prec = 0 \/ ds[prec] % 2 = 0)
    THEN -1
    ELSE RoundHalfUp(ds, prec)

\* Decimal._rescale(exp, rounding)
Rescale(d, exp) ==
    IF AllZeros(d.digits) THEN PyDecimal(d.sign, <<0>>, exp)
    ELSE IF d.exp >= exp
    THEN PyDecimal(d.sign, d.digits \o Zeros(d.exp - exp), exp)
    ELSE LET keep == Len(d.digits) + d.exp - exp
             src == IF keep < 0 THEN <<1>> ELSE d.digits
             prec == IF keep < 0 THEN 0 ELSE keep
             changed == RoundHalfEven(src, prec)
             coeff == Coefficient(SubSeq(src, 1, prec))
         IN  PyDecimal(d.sign, IF changed = 1 THEN Increment(coeff) ELSE coeff, exp)

\* Decimal.quantize(Decimal('0.01')) under the default context
Quantize(d, exp) ==
    LET ans == Rescale(d, exp)
    IN  IF Len(ans.digits) > DecimalPrec
        THEN PyRaise("InvalidOperation")
        ELSE ans

\* comparison of magnitudes given as digit sequences without leading zeros
RECURSIVE DigitsLess(_, _)
DigitsLess(a, b) ==
    IF Len(a) # Len(b) THEN Len(a) < Len(b)
    ELSE IF Len(a) = 0 THEN FALSE
    ELSE IF a[1] # b[1] THEN a[1] < b[1]
    ELSE DigitsLess(Tail(a), Tail(b))

\* a < b for Decimals
DecimalLess(a, b) ==
    LET e == IF a.exp < b.exp THEN a.exp ELSE b.exp
        ma == Coefficient(a.digits \o Zeros(a.exp - e))
        mb == Coefficient(b.digits \o Zeros(b.exp - e))
        za == AllZeros(ma)
        zb == AllZeros(mb)
        nega == a.sign = 1 /\ ~za
        negb == b.sign = 1 /\ ~zb
    IN  IF nega /\ ~negb THEN TRUE
        ELSE IF ~nega /\ negb THEN FALSE
        ELSE IF nega THEN DigitsLess(mb, ma)
        ELSE DigitsLess(ma, mb)

(***************************************************************************)
(* normalize_amount                                                        *)
(***************************************************************************)
CurrencyCodes == {<<"U", "S", "D">>, <<"E", "U", "R">>, <<"G", "B", "P">>, <<"J", "P", "Y">>}

\* re.sub(r'USD|EUR|GBP|JPY', '', s, flags=re.IGNORECASE): one left-to-right pass
RECURSIVE RemoveCodes(_)
RemoveCodes(s) ==
    IF Len(s) = 0 THEN <<>>
    ELSE IF Len(s) >= 3 /\ Upper(SubSeq(s, 1, 3)) \in CurrencyCodes
    THEN RemoveCodes(From(s, 4))
    ELSE <<s[1]>> \o RemoveCodes(Tail(s))

RECURSIVE DigitRun(_)
DigitRun(s) ==
    IF Len(s) > 0 /\ IsDigit(s[1]) THEN <<s[1]>> \o DigitRun(Tail(s)) ELSE <<>>

\* a match that takes in a decimal point standing directly before the first digit
NumericMatchFromPoint(s) ==
    IF \A i \in 1..Len(s) : ~IsDigit(s[i]) THEN <<>>
    ELSE LET start == CHOOSE i \in 1..Len(s) :
                          IsDigit(s[i]) /\ \A j \in 1..(i - 1) : ~IsDigit(s[j])
             ints == DigitRun(From(s, start))
             rest == From(s, start + Len(ints))
         IN  IF start > 1 /\ s[start - 1] = "."
             THEN <<".">> \o ints
             ELSE IF Len(rest) > 0 /\ rest[1] = "."
             THEN ints \o <<".">> \o DigitRun(Tail(rest))
             ELSE ints

\* a match that stops at the decimal point
NumericMatchWholeOnly(s) ==
    IF \A i \in 1..Len(s) : ~IsDigit(s[i]) THEN <<>>
    ELSE LET start == CHOOSE i \in 1..Len(s) :
                          IsDigit(s[i]) /\ \A j \in 1..(i - 1) : ~IsDigit(s[j])
         IN  DigitRun(From(s, start))

\* re.search(r'(\d+\.?\d*)', s).group(1), or <<>> when there is no match
NumericMatch(s) ==
    IF \A i \in 1..Len(s) : ~IsDigit(s[i]) THEN <<>>
    ELSE LET start == CHOOSE i \in 1..Len(s) :
                          IsDigit(s[i]) /\ \A j \in 1..(i - 1) : ~IsDigit(s[j])
             ints == DigitRun(From(s, start))
             rest == From(s, start + Len(ints))
         IN  IF Len(rest) > 0 /\ rest[1] = "."
             THEN ints \o <<".">> \o DigitRun(Tail(rest))
             ELSE ints

\* str(Decimal) for an exponent <= 0 and more than -6 digits left of the point:
\* plain notation, the sign, the integer digits, a point, the fraction digits
DecimalStr(d) ==
    LET ds == [i \in 1..Len(d.digits) |-> DigitChar(d.digits[i])]
        dotplace == Len(ds) + d.exp
        sign == IF d.sign = 1 THEN <<"-">> ELSE <<>>
    IN  IF d.exp = 0 THEN sign \o ds
        ELSE IF dotplace <= 0
        THEN sign \o <<"0", ".">> \o [i \in 1..(-dotplace) |-> "0"] \o ds
        ELSE sign \o SubSeq(ds, 1, dotplace) \o <<".">> \o SubSeq(ds, dotplace + 1, Len(ds))

MaxAmount == PyDecimal(0, <<1, 0, 0, 0, 0, 0, 0>>, 0)
MinAmount == PyDecimal(1, <<1, 0, 0, 0, 0, 0, 0>>, 0)

\* the string the numeric run is extracted from (lines 167-194)
AmountCleaned(s) ==
    LET c1 == Strip(s)
        c2 == RemoveChars(c1, {"€", "¥", "£"})
        c3 == RemoveChars(c2, {"$"})
        c4 == RemoveCodes(c3)
        c5 == Strip(c4)
        c6 == RemoveChars(c5, {"-"})
    IN  RemoveChars(c6, {","})

\* a sign detection that looks at the first character only
AmountIsNegativeLeadingOnly(s) ==
    LET c1 == Strip(s)
    IN  Len(c1) > 0 /\ c1[1] = "-"

\* is_negative (lines 178, 189-190)
AmountIsNegative(s) ==
    LET c1 == Strip(s)
        c5 == Strip(RemoveCodes(RemoveChars(RemoveChars(c1, {"€", "¥", "£"}), {"$"})))
    IN  (Len(c1) > 0 /\ c1[1] = "-") \/ Contains(c5, "-")

\* a range check that rejects the two boundary values
AmountInRangeExclusive(a) == DecimalLess(MinAmount, a) /\ DecimalLess(a, MaxAmount)

\* lines 217-222: the range check on the quantized amount
AmountInRange(a) == ~(DecimalLess(a, MinAmount) \/ DecimalLess(MaxAmount, a))

\* lines 210-226: the try block and its except clause
AmountConvert(numeric_string) ==
    LET parsed == DecimalFromString(numeric_string)
        quantized == IF IsRaise(parsed) THEN parsed ELSE Quantize(parsed, -2)
    IN  IF IsRaise(quantized)
        THEN IF quantized.exc \in {"InvalidOperation", "ValueError"}
             THEN PyNone
             ELSE quantized
        ELSE IF AmountInRange(quantized) THEN quantized ELSE PyNone

normalize_amount(amount_string) ==
    IF ~Truthy(amount_string) \/ ~IsStr(amount_string) THEN PyNone
    ELSE IF Len(Strip(amount_string.val)) = 0 THEN PyNone
    ELSE LET match == NumericMatch(AmountCleaned(amount_string.val))
         IN  IF Len(match) = 0 THEN PyNone
             ELSE AmountConvert(IF AmountIsNegative(amount_string.val)
                                THEN <<"-">> \o match
                                ELSE match)

(***************************************************************************)
(* dateutil.parser.parse(date_string, dayfirst=False), for the strings the *)
(* model feeds it: three runs of one to four digits joined by one          *)
(* separator, '-' or '/', and strings that hold a word dateutil does not   *)
(* know.  The steps are dateutil's: split into tokens, collect the three   *)
(* numbers (a run longer than two digits is a year), resolve which is the  *)
(* year, month and day, widen a two-digit year, build the date.            *)
(***************************************************************************)
\* int(token) for a run of digits
RECURSIVE StrToNat(_)
StrToNat(s) ==
    IF Len(s) = 0 THEN 0 ELSE 10 * StrToNat(SubSeq(s, 1, Len(s) - 1)) + DigitVal(s[Len(s)])

RECURSIVE AlphaRun(_)
AlphaRun(s) ==
    IF Len(s) > 0 /\ IsAlpha(s[1]) THEN <<s[1]>> \o AlphaRun(Tail(s)) ELSE <<>>

\* the lexer: runs of digits, runs of letters, every other character alone
RECURSIVE Tokens(_)
Tokens(s) ==
    IF Len(s) = 0 THEN <<>>
    ELSE LET run == IF IsDigit(s[1]) THEN DigitRun(s)
                    ELSE IF IsAlpha(s[1]) THEN AlphaRun(s)
                    ELSE <<s[1]>>
         IN  <<run>> \o Tokens(From(s, Len(run) + 1))

IsNumber(t) == Len(t) > 0 /\ \A i \in 1..Len(t) : IsDigit(t[i])

\* number, separator, number, the same separator, number
IsNumericDate(toks) ==
    /\ Len(toks) = 5
    /\ \A i \in {1, 3, 5} : IsNumber(toks[i]) /\ Len(toks[i]) <= 4
    /\ toks[2] \in {<<"-">>, <<"/">>}
    /\ toks[4] = toks[2]

IsLeap(y) == (y % 4 = 0 /\ y % 100 # 0) \/ y % 400 = 0

\* calendar.monthrange(y, m)[1]
DaysInMonth(y, m) ==
    IF m = 2 THEN (IF IsLeap(y) THEN 29 ELSE 28)
    ELSE IF m \in {4, 6, 9, 11} THEN 30
    ELSE 31

ParseFailed == [ok |-> FALSE, year |-> 0, month |-> 0, day |-> 0]
Parsed(y, m, d) == [ok |-> TRUE, year |-> y, month |-> m, day |-> d]

\* the resolution dayfirst=True would make
ResolveYmdDayFirst(v, ystridx) ==
    IF v[1] > 31 \/ ystridx = 1
    THEN [year |-> v[1], month |-> v[2], day |-> v[3]]
    ELSE IF v[1] > 12 \/ v[2] <= 12
    THEN [day |-> v[1], month |-> v[2], year |-> v[3]]
    ELSE [month |-> v[1], day |-> v[2], year |-> v[3]]

\* _ymd.resolve_ymd(yearfirst=False, dayfirst=False) for three numbers, none a month name;
\* ystridx is the place of the number labelled a year, 0 when there is none
ResolveYmd(v, ystridx) ==
    IF v[1] > 31 \/ ystridx = 1
    THEN [year |-> v[1], month |-> v[2], day |-> v[3]]
    ELSE IF v[1] > 12
    THEN [day |-> v[1], month |-> v[2], year |-> v[3]]
    ELSE [month |-> v[1], day |-> v[2], year |-> v[3]]

\* parserinfo.convertyear: a two-digit year lands within 50 years of today
ConvertYear(year, century_specified, today_year) ==
    IF year < 100 /\ ~century_specified
    THEN LET y == year + (today_year \div 100) * 100
         IN  IF y >= today_year + 50 THEN y - 100
             ELSE IF y < today_year - 50 THEN y + 100
             ELSE y
    ELSE year

\* a date check that lets every month have 31 days
ValidDateAnyMonth31(y, m, d) ==
    /\ y >= 1 /\ y <= 9999
    /\ m >= 1 /\ m <= 12
    /\ d >= 1 /\ d <= 31

\* datetime.replace(year, month, day) accepts the date
ValidDate(y, m, d) ==
    /\ y >= 1 /\ y <= 9999
    /\ m >= 1 /\ m <= 12
    /\ d >= 1 /\ d <= DaysInMonth(y, m)

\* words that are no month, weekday, time or time zone name of dateutil's
UnknownWords == {<<"I", "n", "v", "a", "l", "i", "d">>, <<"N", "o", "t">>, <<"a", "b", "c">>}

\* the strings modelled: a numeric date, or a string that starts with an unknown word
\* (dateutil raises ParserError at the first token it does not know)
DateModelled(s) ==
    \/ Len(s) = 0
    \/ IsNumericDate(Tokens(s))
    \/ Tokens(s)[1] \in UnknownWords

DateutilParse(s, today_year) ==
    LET toks == Tokens(s)
    IN  IF ~IsNumericDate(toks) THEN ParseFailed
        ELSE LET nums == <<toks[1], toks[3], toks[5]>>
                 labelled == {i \in 1..3 : Len(nums[i]) > 2}
             IN  IF Cardinality(labelled) > 1 THEN ParseFailed
                 ELSE LET ystridx == IF labelled = {} THEN 0 ELSE CHOOSE i \in labelled : TRUE
                          ymd == ResolveYmd([i \in 1..3 |-> StrToNat(nums[i])], ystridx)
                          year == ConvertYear(ymd.year, labelled # {}, today_year)
                      IN  IF ValidDate(year, ymd.month, ymd.day)
                          THEN Parsed(year, ymd.month, ymd.day)
                          ELSE ParseFailed

(***************************************************************************)
(* normalize_date                                                          *)
(***************************************************************************)
MinYear == 1900

Pad2(n) == IF n < 10 THEN <<"0">> \o NatToDigits(n) ELSE NatToDigits(n)

\* a formatting that does not pad the month and the day
StrftimeUnpadded(d) ==
    NatToDigits(d.year) \o <<"-">> \o NatToDigits(d.month) \o <<"-">> \o NatToDigits(d.day)

\* parsed_date.strftime("%Y-%m-%d")
Strftime(d) ==
    NatToDigits(d.year) \o <<"-">> \o Pad2(d.month) \o <<"-">> \o Pad2(d.day)

\* a range check that rejects next year
YearInRangeNoFuture(year, this_year) == ~(year < MinYear \/ year > this_year)

\* line 73: the year is within the accepted window
YearInRange(year, this_year) == ~(year < MinYear \/ year > this_year + 1)

\* lines 66-82: the try block; a ParserError is a ValueError, so the except clause returns None
DateConvert(s, this_year) ==
    LET parsed_date == DateutilParse(s, this_year)
    IN  IF ~parsed_date.ok THEN PyRaise("ParserError")
        ELSE IF ~YearInRange(parsed_date.year, this_year) THEN PyNone
        ELSE PyStr(Strftime(parsed_date))

\* an except clause that catches nothing
DateCaughtNothing == {}

\* the exceptions `except (ValueError, OverflowError)` catches
DateCaught == {"ValueError", "ParserError", "OverflowError"}

normalize_date(date_string, this_year) ==
    IF ~Truthy(date_string) \/ ~IsStr(date_string) THEN PyNone
    ELSE IF Len(Strip(date_string.val)) = 0 THEN PyNone
    ELSE LET r == DateConvert(Strip(date_string.val), this_year)
         IN  IF IsRaise(r) /\ r.exc \in DateCaught THEN PyNone ELSE r

(***************************************************************************)
(* rapidfuzz.fuzz.partial_ratio: the shorter string is slid over the longer *)
(* one and the best Indel similarity of any window is the score.  A score  *)
(* is held as the exact fraction num / den of 100.                         *)
(***************************************************************************)
Max(a, b) == IF a >= b THEN a ELSE b

\* one row of the longest-common-subsequence table: the row for one more character c
RECURSIVE LcsRow(_, _, _, _)
LcsRow(prev, c, t, acc) ==
    IF Len(acc) = Len(t) + 1 THEN acc
    ELSE LET j == Len(acc)
         IN  LcsRow(prev, c, t,
                    Append(acc, IF c = t[j] THEN prev[j] + 1 ELSE Max(prev[j + 1], acc[j])))

RECURSIVE LcsRows(_, _, _)
LcsRows(s, t, row) ==
    IF Len(s) = 0 THEN row ELSE LcsRows(Tail(s), t, LcsRow(row, s[1], t, <<0>>))

\* the length of a longest common subsequence of s and t
Lcs(s, t) == LcsRows(s, t, [j \in 1..(Len(t) + 1) |-> 0])[Len(t) + 1]

\* fuzz.ratio: 100 * (1 - indel_distance / (len1 + len2)) = 100 * 2 * lcs / (len1 + len2)
Ratio(s, t) ==
    IF Len(s) + Len(t) = 0 THEN [num |-> 100, den |-> 1]
    ELSE [num |-> 200 * Lcs(s, t), den |-> Len(s) + Len(t)]

ScoreZero == [num |-> 0, den |-> 1]
ScoreGreater(a, b) == a.num * b.den > b.num * a.den
ScoreAtLeast(a, n) == a.num >= n * a.den
ScoreEqual(a, b) == a.num * b.den = b.num * a.den

\* the windows of s2 that s1 is compared with: prefixes shorter than s1, every window
\* as long as s1, suffixes; a window is skipped when its last (for a suffix, its first)
\* character does not occur in s1
PartialWindows(s1, s2) ==
    LET len1 == Len(s1)
        len2 == Len(s2)
        chars == Range(s1)
    IN  {SubSeq(s2, 1, i) : i \in {k \in 1..(len1 - 1) : s2[k] \in chars}}
            \cup {SubSeq(s2, i + 1, i + len1) :
                      i \in {k \in 0..(len2 - len1 - 1) : len1 > 0 /\ s2[k + len1] \in chars}}
            \cup {SubSeq(s2, i + 1, len2) :
                      i \in {k \in (len2 - len1)..(len2 - 1) : s2[k + 1] \in chars}}

\* _partial_ratio_impl(s1, s2) for len(s1) <= len(s2): the best score of any window, 0 when none
PartialRatioImpl(s1, s2) ==
    LET scores == {Ratio(s1, w) : w \in PartialWindows(s1, s2)}
    IN  IF scores = {} THEN ScoreZero
        ELSE CHOOSE best \in scores : \A other \in scores : ~ScoreGreater(other, best)

partial_ratio(s1, s2) ==
    IF Len(s1) = 0 /\ Len(s2) = 0 THEN [num |-> 100, den |-> 1]
    ELSE LET shorter == IF Len(s1) <= Len(s2) THEN s1 ELSE s2
             longer == IF Len(s1) <= Len(s2) THEN s2 ELSE s1
             res == PartialRatioImpl(shorter, longer)
         IN  IF ~ScoreEqual(res, [num |-> 100, den |-> 1]) /\ Len(s1) = Len(s2)
             THEN LET res2 == PartialRatioImpl(longer, shorter)
                  IN  IF ScoreGreater(res2, res) THEN res2 ELSE res
             ELSE res

(***************************************************************************)
(* normalize_merchant                                                      *)
(***************************************************************************)
MERCHANT_CATEGORIES ==
    << [category |-> <<"u", "b", "e", "r">>,
        keywords |-> << <<"u", "b", "e", "r">>,
                      <<"u", "b", "e", "r", " ", "t", "r", "i", "p">>,
                      <<"u", "b", "e", "r", " ", "e", "a", "t", "s">>,
                      <<"u", "b", "e", "r", " ", "t", "e", "c", "h", "n", "o", "l", "o", "g", "i", "e", "s">> >>],
       [category |-> <<"a", "m", "a", "z", "o", "n">>,
        keywords |-> << <<"a", "m", "a", "z", "o", "n">>,
                      <<"a", "m", "z", "n">>,
                      <<"a", "m", "a", "z", "o", "n", " ", "p", "r", "i", "m", "e">>,
                      <<"a", "m", "a", "z", "o", "n", " ", "m", "k", "t", "p", "l", "a", "c", "e">> >>],
       [category |-> <<"s", "t", "a", "r", "b", "u", "c", "k", "s">>,
        keywords |-> << <<"s", "t", "a", "r", "b", "u", "c", "k", "s">>,
                      <<"s", "b", "u", "x">>,
                      <<"s", "t", "a", "r", "b", "u", "c", "k", "s", " ", "c", "o", "f", "f", "e", "e">> >>],
       [category |-> <<"t", "a", "r", "g", "e", "t">>,
        keywords |-> << <<"t", "a", "r", "g", "e", "t">>,
                      <<"t", "g", "t">> >>],
       [category |-> <<"m", "c", "d", "o", "n", "a", "l", "d", "s">>,
        keywords |-> << <<"m", "c", "d", "o", "n", "a", "l", "d">>,
                      <<"m", "c", "d">> >>],
       [category |-> <<"g", "a", "s", "_", "s", "t", "a", "t", "i", "o", "n">>,
        keywords |-> << <<"s", "h", "e", "l", "l">>,
                      <<"c", "h", "e", "v", "r", "o", "n">>,
                      <<"b", "p">>,
                      <<"e", "x", "x", "o", "n">>,
                      <<"e", "x", "x", "o", "n", "m", "o", "b", "i", "l">> >>],
       [category |-> <<"g", "r", "o", "c", "e", "r", "y">>,
        keywords |-> << <<"w", "h", "o", "l", "e", " ", "f", "o", "o", "d", "s">>,
                      <<"t", "r", "a", "d", "e", "r", " ", "j", "o", "e">>,
                      <<"s", "a", "f", "e", "w", "a", "y">>,
                      <<"t", "r", "a", "d", "e", "r", " ", "j", "o", "e", "s">> >>],
       [category |-> <<"r", "e", "s", "t", "a", "u", "r", "a", "n", "t">>,
        keywords |-> << <<"c", "h", "i", "p", "o", "t", "l", "e">>,
                      <<"p", "a", "n", "e", "r", "a">>,
                      <<"i", "n", "-", "n", "-", "o", "u", "t">>,
                      <<"i", "n", " ", "n", " ", "o", "u", "t">> >>],
       [category |-> <<"u", "t", "i", "l", "i", "t", "y">>,
        keywords |-> << <<"p", "g", "&", "e">>,
                      <<"p", "g", "e">>,
                      <<"p", "a", "c", "i", "f", "i", "c", " ", "g", "a", "s">>,
                      <<"c", "o", "m", "c", "a", "s", "t">>,
                      <<"a", "t", "&", "t">>,
                      <<"a", "t", "t">> >>],
       [category |-> <<"e", "n", "t", "e", "r", "t", "a", "i", "n", "m", "e", "n", "t">>,
        keywords |-> << <<"n", "e", "t", "f", "l", "i", "x">>,
                      <<"s", "p", "o", "t", "i", "f", "y">>,
                      <<"a", "m", "c">> >>] >>

FUZZY_MATCH_THRESHOLD == 85

\* the length from which an unmatched name is cut
MaxDisplayLen == 50

\* every (category, keyword) pair in category-then-keyword declaration order
RECURSIVE PairsFrom(_, _)
PairsFrom(c, k) ==
    IF c > Len(MERCHANT_CATEGORIES) THEN <<>>
    ELSE IF k > Len(MERCHANT_CATEGORIES[c].keywords) THEN PairsFrom(c + 1, 1)
    ELSE <<[category |-> MERCHANT_CATEGORIES[c].category,
            keyword |-> MERCHANT_CATEGORIES[c].keywords[k]]>> \o PairsFrom(c, k + 1)

KnowledgePairs == PairsFrom(1, 1)

\* str.title(): the first letter of every run of letters in upper case, the others in lower case
RECURSIVE TitleFrom(_, _)
TitleFrom(s, previous_is_cased) ==
    IF Len(s) = 0 THEN <<>>
    ELSE IF IsAlpha(s[1])
    THEN <<IF previous_is_cased THEN ToLowerChar(s[1]) ELSE ToUpperChar(s[1])>>
             \o TitleFrom(Tail(s), TRUE)
    ELSE <<s[1]>> \o TitleFrom(Tail(s), FALSE)

Title(s) == TitleFrom(s, FALSE)

\* re.sub(r'\s+', ' ', s)
RECURSIVE CollapseSpaces(_)
CollapseSpaces(s) ==
    IF Len(s) = 0 THEN <<>>
    ELSE IF IsSpace(s[1]) THEN <<" ">> \o CollapseSpaces(LStrip(s))
    ELSE <<s[1]>> \o CollapseSpaces(Tail(s))

RECURSIVE KeepChars(_)
KeepChars(s) ==
    IF Len(s) = 0 THEN <<>>
    ELSE IF IsAlpha(s[1]) \/ IsDigit(s[1]) \/ IsSpace(s[1]) THEN <<s[1]>> \o KeepChars(Tail(s))
    ELSE KeepChars(Tail(s))

\* lines 114-115: the lower-case key used for matching only
ComparisonName(cleaned) == Strip(CollapseSpaces(Lower(KeepChars(cleaned))))

NoMatch == [score |-> ScoreZero, category |-> <<>>, name |-> <<>>]

\* a loop in which a later pair with an equal score replaces the best pair
RECURSIVE MatchLoopLastWins(_, _, _)
MatchLoopLastWins(comparison_name, i, best) ==
    IF i > Len(KnowledgePairs) THEN best
    ELSE LET pair == KnowledgePairs[i]
             score == partial_ratio(comparison_name, Lower(pair.keyword))
             replaces == ~ScoreGreater(best.score, score)
                             /\ ScoreAtLeast(score, FUZZY_MATCH_THRESHOLD)
         IN  IF replaces
             THEN MatchLoopLastWins(comparison_name, i + 1,
                                    [score |-> score, category |-> pair.category,
                                     name |-> Title(pair.keyword)])
             ELSE MatchLoopLastWins(comparison_name, i + 1, best)

\* lines 122-130: the loop over the pairs, keeping the best pair seen so far
RECURSIVE MatchLoop(_, _, _)
MatchLoop(comparison_name, i, best) ==
    IF i > Len(KnowledgePairs) THEN best
    ELSE LET pair == KnowledgePairs[i]
             score == partial_ratio(comparison_name, Lower(pair.keyword))
             replaces == ScoreGreater(score, best.score)
                             /\ ScoreAtLeast(score, FUZZY_MATCH_THRESHOLD)
         IN  IF replaces
             THEN MatchLoop(comparison_name, i + 1,
                            [score |-> score, category |-> pair.category,
                             name |-> Title(pair.keyword)])
             ELSE MatchLoop(comparison_name, i + 1, best)

BestMatch(comparison_name) == MatchLoop(comparison_name, 1, NoMatch)

Unknown == <<"U", "n", "k", "n", "o", "w", "n">>
Other == <<"o", "t", "h", "e", "r">>

\* a fallback that cuts only names longer than 50 characters
DisplayNameCutAbove(cleaned) ==
    IF Len(cleaned) <= MaxDisplayLen THEN Title(cleaned)
    ELSE SubSeq(cleaned, 1, MaxDisplayLen) \o <<".", ".", ".">>

\* a fallback that shows the comparison key instead of the trimmed input
DisplayNameFromKey(cleaned) ==
    IF Len(cleaned) < MaxDisplayLen THEN Title(ComparisonName(cleaned))
    ELSE SubSeq(cleaned, 1, MaxDisplayLen) \o <<".", ".", ".">>

\* line 138: the display name of an unmatched merchant
DisplayName(cleaned) ==
    IF Len(cleaned) < MaxDisplayLen THEN Title(cleaned)
    ELSE SubSeq(cleaned, 1, MaxDisplayLen) \o <<".", ".", ".">>

MerchantResult(name, category) == [name |-> PyStr(name), category |-> PyStr(category)]

\* normalize_merchant without the check of the stripped name
normalize_merchant_unchecked(merchant_name) ==
    IF ~Truthy(merchant_name) \/ ~IsStr(merchant_name) THEN MerchantResult(Unknown, Other)
    ELSE LET cleaned == Strip(merchant_name.val)
             best == BestMatch(ComparisonName(cleaned))
         IN  IF Len(best.category) > 0 /\ Len(best.name) > 0
             THEN MerchantResult(best.name, best.category)
             ELSE MerchantResult(DisplayName(cleaned), Other)

normalize_merchant(merchant_name) ==
    IF ~Truthy(merchant_name) \/ ~IsStr(merchant_name) THEN MerchantResult(Unknown, Other)
    ELSE LET cleaned == Strip(merchant_name.val)
         IN  IF Len(cleaned) = 0 THEN MerchantResult(Unknown, Other)
             ELSE LET best == BestMatch(ComparisonName(cleaned))
                  IN  IF Len(best.category) > 0 /\ Len(best.name) > 0
                      THEN MerchantResult(best.name, best.category)
                      ELSE MerchantResult(DisplayName(cleaned), Other)

(***************************************************************************)
(* normalize_transaction                                                   *)
(***************************************************************************)
InvalidDatePrefix == <<"I", "n", "v", "a", "l", "i", "d", " ", "d", "a", "t", "e", ":", " ">>
InvalidAmountPrefix ==
    <<"I", "n", "v", "a", "l", "i", "d", " ", "a", "m", "o", "u", "n", "t", ":", " ">>

\* str.strip() of a string, any other value as it is
Stripped(v) == IF IsStr(v) THEN PyStr(Strip(v.val)) ELSE v

\* a record that keeps the trimmed inputs
InitialRecordTrimmed(d, m, a) ==
    [kind |-> "dict",
     raw_date |-> Stripped(d),
     raw_merchant |-> Stripped(m),
     raw_amount |-> Stripped(a),
     normalized_date |-> PyNone,
     normalized_merchant |-> PyNone,
     category |-> PyNone,
     normalized_amount |-> PyNone,
     is_valid |-> TRUE,
     errors |-> <<>>]

\* lines 241-251: the record before any field is normalized
InitialRecord(d, m, a) ==
    [kind |-> "dict",
     raw_date |-> d,
     raw_merchant |-> m,
     raw_amount |-> a,
     normalized_date |-> PyNone,
     normalized_merchant |-> PyNone,
     category |-> PyNone,
     normalized_amount |-> PyNone,
     is_valid |-> TRUE,
     errors |-> <<>>]

\* a date step that records no error
WithDateNoError(rec, normalized_date, d) ==
    [rec EXCEPT !.is_valid = IF IsNone(normalized_date) THEN FALSE ELSE @,
                !.normalized_date = normalized_date]

\* a date step that leaves is_valid alone
WithDateStillValid(rec, normalized_date, d) ==
    [rec EXCEPT !.errors = IF IsNone(normalized_date)
                           THEN Append(@, InvalidDatePrefix \o PyFormat(d))
                           ELSE @,
                !.normalized_date = normalized_date]

\* lines 254-258
WithDate(rec, normalized_date, d) ==
    [rec EXCEPT !.is_valid = IF IsNone(normalized_date) THEN FALSE ELSE @,
                !.errors = IF IsNone(normalized_date)
                           THEN Append(@, InvalidDatePrefix \o PyFormat(d))
                           ELSE @,
                !.normalized_date = normalized_date]

\* lines 261-263
WithMerchant(rec, merchant_result) ==
    [rec EXCEPT !.normalized_merchant = merchant_result.name,
                !.category = merchant_result.category]

\* an amount step that leaves is_valid alone
WithAmountStillValid(rec, normalized_amount, a) ==
    [rec EXCEPT !.errors = IF IsNone(normalized_amount)
                           THEN Append(@, InvalidAmountPrefix \o PyFormat(a))
                           ELSE @,
                !.normalized_amount = normalized_amount]

\* an amount step that puts its error first
WithAmountErrorFirst(rec, normalized_amount, a) ==
    [rec EXCEPT !.is_valid = IF IsNone(normalized_amount) THEN FALSE ELSE @,
                !.errors = IF IsNone(normalized_amount)
                           THEN <<InvalidAmountPrefix \o PyFormat(a)>> \o @
                           ELSE @,
                !.normalized_amount = normalized_amount]

\* lines 266-270
WithAmount(rec, normalized_amount, a) ==
    [rec EXCEPT !.is_valid = IF IsNone(normalized_amount) THEN FALSE ELSE @,
                !.errors = IF IsNone(normalized_amount)
                           THEN Append(@, InvalidAmountPrefix \o PyFormat(a))
                           ELSE @,
                !.normalized_amount = normalized_amount]

\* an exception raised by a field normalizer leaves normalize_transaction as it is
normalize_transaction(d, m, a, this_year) ==
    LET normalized_date == normalize_date(d, this_year)
        normalized_amount == normalize_amount(a)
    IN  IF IsRaise(normalized_date) THEN normalized_date
        ELSE IF IsRaise(normalized_amount) THEN normalized_amount
        ELSE WithAmount(WithMerchant(WithDate(InitialRecord(d, m, a), normalized_date, d),
                                     normalize_merchant(m)),
                        normalized_amount, a)

(***************************************************************************)
(* get_normalization_stats                                                 *)
(***************************************************************************)
\* sum(1 for t in transactions if keep(t))
CountWhere(ts, keep(_)) ==
    LET count[i \in 0..Len(ts)] ==
            IF i = 0 THEN 0 ELSE count[i - 1] + (IF keep(ts[i]) THEN 1 ELSE 0)
    IN  count[Len(ts)]

\* t.get("category", "other")
CategoryOf(t) == IF "category" \in DOMAIN t THEN t.category ELSE PyStr(Other)

\* a count that leaves out the records that are not valid
RECURSIVE CategoryCountsValidOnly(_)
CategoryCountsValidOnly(ts) ==
    IF Len(ts) = 0 THEN <<>>
    ELSE LET rest == CategoryCountsValidOnly(SubSeq(ts, 1, Len(ts) - 1))
             t == ts[Len(ts)]
             cat == CategoryOf(t)
         IN  IF ~t.is_valid THEN rest
             ELSE [c \in DOMAIN rest \cup {cat} |->
                      IF c = cat THEN (IF cat \in DOMAIN rest THEN rest[cat] ELSE 0) + 1
                      ELSE rest[c]]

\* lines 292-295: categories[cat] = categories.get(cat, 0) + 1 for every record;
\* a dict is a function from its keys
RECURSIVE CategoryCounts(_)
CategoryCounts(ts) ==
    IF Len(ts) = 0 THEN <<>>
    ELSE LET rest == CategoryCounts(SubSeq(ts, 1, Len(ts) - 1))
             cat == CategoryOf(ts[Len(ts)])
         IN  [c \in DOMAIN rest \cup {cat} |->
                 IF c = cat THEN (IF cat \in DOMAIN rest THEN rest[cat] ELSE 0) + 1
                 ELSE rest[c]]

\* valid / total * 100, held as the exact fraction num / den
PyFloat(num, den) == [kind |-> "float", num |-> num, den |-> den]

RecordIsValid(t) == t.is_valid
RecordDateAbsent(t) == IsNone(t.normalized_date)
RecordAmountAbsent(t) == IsNone(t.normalized_amount)

get_normalization_stats(ts) ==
    LET total == Len(ts)
        valid == CountWhere(ts, RecordIsValid)
    IN  [total_transactions |-> total,
         valid_transactions |-> valid,
         invalid_transactions |-> total - valid,
         success_rate |-> IF total > 0 THEN PyFloat(valid * 100, total) ELSE PyInt(0),
         date_errors |-> CountWhere(ts, RecordDateAbsent),
         amount_errors |-> CountWhere(ts, RecordAmountAbsent),
         categories |-> CategoryCounts(ts)]

(***************************************************************************)
(* The file adapter (src/src/parser.py).  A file is missing, empty (size   *)
(* 0), not UTF-8, or text: a sequence of lines, each the list of cells     *)
(* csv.reader makes of it (a blank line is the empty list).  The first     *)
(* line is the header.  Header names are distinct, so csv.DictReader keys  *)
(* do not collide.  The optional columns category, description and notes   *)
(* are not among the headers modelled.                                     *)
(***************************************************************************)
REQUIRED_COLUMNS == {<<"d", "a", "t", "e">>,
                     <<"m", "e", "r", "c", "h", "a", "n", "t">>,
                     <<"a", "m", "o", "u", "n", "t">>}

PyList(items) == [kind |-> "list", val |-> items]
ParserError == PyRaise("ParserError")

\* csv.DictReader.fieldnames: the first line
Fieldnames(file) == file.lines[1]

\* a reader that yields a row for a blank line too
DataLinesWithBlank(file) == SubSeq(file.lines, 2, Len(file.lines))

\* the rows csv.DictReader yields: the lines after the header, blank lines left out
DataLines(file) ==
    SelectSeq(SubSeq(file.lines, 2, Len(file.lines)), LAMBDA cells : Len(cells) > 0)

\* csv.DictReader.__next__: the cells under the field names in order, None for a
\* missing cell, the surplus cells as a list under the key None
DictRow(fieldnames, cells) ==
    [i \in 1..Len(fieldnames) |->
        [key |-> PyStr(fieldnames[i]),
         value |-> IF i <= Len(cells) THEN PyStr(cells[i]) ELSE PyNone]]
        \o (IF Len(cells) > Len(fieldnames)
            THEN <<[key |-> PyNone,
                    value |-> PyList(SubSeq(cells, Len(fieldnames) + 1, Len(cells)))]>>
            ELSE <<>>)

\* lines 39-82
validate_csv_structure(file) ==
    IF file.status = "missing" THEN ParserError
    ELSE IF file.status = "empty" THEN ParserError
    ELSE IF file.status = "undecodable" THEN ParserError
    ELSE LET columns == {Strip(Lower(Fieldnames(file)[i])) : i \in 1..Len(Fieldnames(file))}
         IN  IF REQUIRED_COLUMNS \ columns # {} THEN ParserError ELSE PyNone

\* line 117: all(not value or not value.strip() for value in row.values()), left to
\* right and stopping at the first value that is not blank; a list has no strip()
RECURSIVE AllBlank(_, _)
AllBlank(row, i) ==
    IF i > Len(row) THEN PyInt(1)
    ELSE LET value == row[i].value
         IN  IF IsNone(value) THEN AllBlank(row, i + 1)
             ELSE IF value.kind = "list" THEN PyRaise("AttributeError")
             ELSE IF Len(Strip(value.val)) = 0 THEN AllBlank(row, i + 1)
             ELSE PyInt(0)

\* the values as the reader gave them, None left in place
NormalizedRowKeepNone(row) ==
    IF \E i \in 1..Len(row) : IsNone(row[i].key) \/ row[i].value.kind = "list"
    THEN PyRaise("AttributeError")
    ELSE LET NormalKey(i) == Strip(Lower(row[i].key.val))
         IN  [kind |-> "dict",
              val |-> [k \in {NormalKey(i) : i \in 1..Len(row)} |->
                          LET last == CHOOSE i \in 1..Len(row) :
                                          /\ NormalKey(i) = k
                                          /\ \A j \in 1..Len(row) : NormalKey(j) = k => j <= i
                          IN  row[last].value]]

\* lines 122-125: the keys lower-cased and stripped, the values stripped, "" for None;
\* None has no lower() and a list has no strip()
NormalizedRow(row) ==
    IF \E i \in 1..Len(row) : IsNone(row[i].key) \/ row[i].value.kind = "list"
    THEN PyRaise("AttributeError")
    ELSE LET NormalKey(i) == Strip(Lower(row[i].key.val))
         IN  [kind |-> "dict",
              val |-> [k \in {NormalKey(i) : i \in 1..Len(row)} |->
                          LET last == CHOOSE i \in 1..Len(row) :
                                          /\ NormalKey(i) = k
                                          /\ \A j \in 1..Len(row) : NormalKey(j) = k => j <= i
                          IN  IF IsNone(row[last].value) THEN PyStr(<<>>)
                              ELSE PyStr(Strip(row[last].value.val))]]

\* lines 135-140
Transaction(row_num, normalized_row) ==
    [row_number |-> row_num,
     date |-> normalized_row[<<"d", "a", "t", "e">>],
     merchant |-> normalized_row[<<"m", "e", "r", "c", "h", "a", "n", "t">>],
     amount |-> normalized_row[<<"a", "m", "o", "u", "n", "t">>]]

\* lines 115-150: the loop over the rows, from row number row_num on
RECURSIVE ParseRows(_, _, _, _)
ParseRows(fieldnames, lines, row_num, parsed) ==
    IF Len(lines) = 0 THEN PyList(parsed)
    ELSE LET row == DictRow(fieldnames, lines[1])
             blank == AllBlank(row, 1)
         IN  IF IsRaise(blank) THEN blank
             ELSE IF blank = PyInt(1)
             THEN ParseRows(fieldnames, Tail(lines), row_num + 1, parsed)
             ELSE LET normalized_row == NormalizedRow(row)
                  IN  IF IsRaise(normalized_row) THEN normalized_row
                      ELSE IF ~(REQUIRED_COLUMNS \subseteq DOMAIN normalized_row.val)
                      THEN ParseRows(fieldnames, Tail(lines), row_num + 1, parsed)
                      ELSE ParseRows(fieldnames, Tail(lines), row_num + 1,
                                     Append(parsed,
                                            Transaction(row_num, normalized_row.val)))

\* lines 104-165: every exception of the loop leaves as a ParserError
parse_transactions_csv(file) ==
    IF IsRaise(validate_csv_structure(file)) THEN ParserError
    ELSE LET parsed == ParseRows(Fieldnames(file), DataLines(file), 2, <<>>)
         IN  IF IsRaise(parsed) THEN ParserError ELSE parsed

(***************************************************************************)
(* Inputs of normalize_amount and the specification that applies it        *)
(***************************************************************************)
\* the longest amount string enumerated exhaustively over AmountAlphabet
MaxAmountLen == 3

AmountAlphabet == {"0", "5", ".", "-", "$", ",", " "}

CuratedAmounts ==
    { <<"$", "4", "5", ".", "5", "0">>,
      <<"$", " ", "4", "5", ".", "5", "0">>,
      <<"4", "5", ".", "5", "0", " ", "U", "S", "D">>,
      <<"4", "5", ".", "5", "0", "U", "S", "D">>,
      <<"U", "S", "D", " ", "4", "5", ".", "5", "0">>,
      <<" ", "4", "5", ".", "5", "0", " ">>,
      <<"-", "$", "2", "5", ".", "0", "0">>,
      <<"$", "-", "2", "5", ".", "0", "0">>,
      <<"-", "2", "5", ".", "0", "0">>,
      <<"€", "5", "0", ".", "0", "0">>,
      <<"¥", "1", "0", "0", "0">>,
      <<"£", "4", "5", ".", "5", "0">>,
      <<"$", "1", ",", "2", "3", "4", ".", "5", "6">>,
      <<"1", "2", ".", "3">>,
      <<"1", "2", ".", "3", "4", "5">>,
      <<"1", "2", ".", "3", "4", "6">>,
      <<"1", "2", ".", "3", "5", "5">>,
      <<"-", "1", "2", ".", "3", "4", "5">>,
      <<"0", ".", "0", "0", "5">>,
      <<"0", ".", "0", "1", "5">>,
      <<"0", ".", "0", "0", "0", "4">>,
      <<"-", "0">>,
      <<"1", "2", ".">>,
      <<".", "5", "0">>,
      <<"$", ".", "9", "9">>,
      <<"I", "n", "v", "a", "l", "i", "d">>,
      <<"a", "b", "c">>,
      <<" ", " ", " ">>,
      <<"$", "9", "9", "9", "9", "9", "9", "9", "9", "9", ".", "9", "9">>,
      <<"$", "-", "9", "9", "9", "9", "9", "9", "9", "9", "9", ".", "9", "9">>,
      <<"1", "0", "0", "0", "0", "0", "0">>,
      <<"1", "0", "0", "0", "0", "0", "0", ".", "0", "0">>,
      <<"-", "1", "0", "0", "0", "0", "0", "0", ".", "0", "0">>,
      <<"$", "1", ",", "0", "0", "0", ",", "0", "0", "0", ".", "0", "0">>,
      <<"1", "0", "0", "0", "0", "0", "0", ".", "0", "0", "4">>,
      <<"1", "0", "0", "0", "0", "0", "0", ".", "0", "0", "5">>,
      <<"1", "0", "0", "0", "0", "0", "0", ".", "0", "0", "6">>,
      <<"1", "0", "0", "0", "0", "0", "0", ".", "0", "1">>,
      <<"-", "1", "0", "0", "0", "0", "0", "0", ".", "0", "1">>,
      <<"9", "9", "9", "9", "9", "9", ".", "9", "9">>,
      <<"9", "9", "9", "9", "9", "9", ".", "9", "9", "4">>,
      <<"9", "9", "9", "9", "9", "9", ".", "9", "9", "5">>,
      <<"-", "9", "9", "9", "9", "9", "9", ".", "9", "9", "5">>,
      <<"-", "1", "0", "0", "0", "0", "0", "0", ".", "0", "0", "5">>,
      <<"U", "U", "S", "D", "S", "D", "5">>,
      <<"5", " ", "e", "u", "r">>,
      <<"1", "1", "1", "1", "1", "1", "1", "1", "1", "1", "1", "1", "1", "1", "1", "1", "1", "1", "1", "1", "1", "1", "1", "1", "1", "1", "1">>,
      <<"1", "2", ".", "5", ".", "3">>,
      <<"1", "-", "2">> }

\* values that are not strings: None, 0, 45
\* no output file and no report file has been written
NothingWritten == [output |-> PyNone, report |-> PyNone]

\* no pipeline is running
ProcessIdle ==
    /\ input_file = PyNone
    /\ transactions = <<>>
    /\ normalized_results = <<>>
    /\ stats = PyNone
    /\ exit_code = PyNone
    /\ output_file = PyNone
    /\ report_file = PyNone
    /\ position = 0
    /\ cleaned_transactions = <<>>
    /\ written = NothingWritten
    /\ analyzer = PyNone

\* no concurrent caller
WorkersIdle ==
    /\ calls = <<>>
    /\ heap = <<>>
    /\ knowledge_base = MERCHANT_CATEGORIES

NonStrings == {PyNone, PyInt(0), PyInt(45)}

AmountInputs ==
    {PyStr(s) : s \in StringsUpTo(AmountAlphabet, MaxAmountLen) \cup CuratedAmounts}
        \cup NonStrings

EmptyStr == PyStr(<<>>)

InitAmount ==
    /\ current_year = 2024
    /\ date = EmptyStr
    /\ merchant = EmptyStr
    /\ amount \in AmountInputs
    /\ pc = "call"
    /\ result = PyNone
    /\ ProcessIdle
    /\ WorkersIdle

\* one call of normalize_amount(amount)
CallNormalizeAmount ==
    /\ pc = "call"
    /\ result' = normalize_amount(amount)
    /\ pc' = "return"
    /\ UNCHANGED <<current_year, date, merchant, amount>>
    /\ UNCHANGED processVars
    /\ UNCHANGED workerVars

NextAmount == CallNormalizeAmount

SpecAmount == InitAmount /\ [][NextAmount]_vars

(***************************************************************************)
(* Inputs of normalize_date and the specification that applies it          *)
(***************************************************************************)
\* datetime.now().year when the call is made
CurrentYears == {2023, 2024}

DateFields ==
    { <<"1", "8", "9", "9">>,
      <<"1", "9", "0", "0">>,
      <<"2", "0", "2", "3">>,
      <<"2", "0", "2", "4">>,
      <<"2", "0", "2", "5">>,
      <<"2", "0", "2", "6">>,
      <<"1">>,
      <<"0", "1">>,
      <<"0", "2">>,
      <<"1", "2">>,
      <<"1", "3">>,
      <<"1", "5">>,
      <<"2", "9">>,
      <<"3", "1">>,
      <<"3", "2">>,
      <<"9", "9">>,
      <<"0", "4">>,
      <<"3", "0">> }

DateSeparators == {"-", "/"}

\* a b c joined by one separator
NumericDates ==
    {a \o <<sep>> \o b \o <<sep>> \o c : a \in DateFields, b \in DateFields, c \in DateFields,
                                          sep \in DateSeparators}

CuratedDates ==
    { <<>>,
      <<" ", " ", " ">>,
      <<" ", " ", "2", "0", "2", "3", "-", "0", "1", "-", "1", "5", " ", " ">>,
      <<" ", "2", "0", "2", "4", "-", "0", "2", "-", "2", "9">>,
      <<"1", "2", "/", "3", "1", "/", "2", "0", "2", "3", " ">>,
      <<"I", "n", "v", "a", "l", "i", "d", " ", "D", "a", "t", "e">>,
      <<"N", "o", "t", " ", "a", " ", "d", "a", "t", "e">>,
      <<"a", "b", "c">> }

\* the strings whose parse DateutilParse models
DateInputs ==
    {PyStr(s) : s \in {x \in NumericDates \cup CuratedDates : DateModelled(Strip(x))}}
        \cup NonStrings

InitDate ==
    /\ current_year \in CurrentYears
    /\ date \in DateInputs
    /\ merchant = EmptyStr
    /\ amount = EmptyStr
    /\ pc = "call"
    /\ result = PyNone
    /\ ProcessIdle
    /\ WorkersIdle

\* one call of normalize_date(date)
CallNormalizeDate ==
    /\ pc = "call"
    /\ result' = normalize_date(date, current_year)
    /\ pc' = "return"
    /\ UNCHANGED <<current_year, date, merchant, amount>>
    /\ UNCHANGED processVars
    /\ UNCHANGED workerVars

NextDate == CallNormalizeDate

SpecDate == InitDate /\ [][NextDate]_vars

(***************************************************************************)
(* Inputs of normalize_merchant and the specification that applies it      *)
(***************************************************************************)
\* the longest merchant string enumerated exhaustively over MerchantAlphabet
MaxMerchantLen == 3

MerchantAlphabet == {"b", "P", "#", " "}

CuratedMerchants ==
    { <<"U", "B", "E", "R", " ", "*", "T", "R", "I", "P">>,
      <<"U", "b", "e", "r", " ", "T", "e", "c", "h", "n", "o", "l", "o", "g", "i", "e", "s">>,
      <<"S", "T", "A", "R", "B", "U", "C", "K", "S", " ", "#", "1", "2", "3", "4">>,
      <<"A", "m", "a", "z", "o", "n", ".", "c", "o", "m">>,
      <<"A", "M", "Z", "N", " ", "M", "k", "t", "p", " ", "U", "S">>,
      <<"R", "a", "n", "d", "o", "m", " ", "S", "t", "o", "r", "e">>,
      <<"S", "t", "o", "r", "e">>,
      <<"!", "!", "!", "#", "#", "#">>,
      <<"1", "2", "3", "4", "5", "6", "7", "8", "9">>,
      <<"S", "T", "A", "R", "B", "U", "C", "K">>,
      <<" ", " ", " ">>,
      <<" ", " ", "t", "a", "r", "g", "e", "t", " ", " ">>,
      <<"t", "r", "a", "d", "e", "r", " ", "j", "o", "e", "s">>,
      <<"P", "G", "&", "E">>,
      <<"x", "y", "z", " ", "c", "o", "r", "p">>,
      <<"A", "m", "a", "z", "o", "x", "n">>,
      <<"Q", "Q", "Q", "Q", "Q", "Q", "Q", "Q", "Q", "Q", "Q", "Q", "Q", "Q", "Q", "Q", "Q", "Q", "Q", "Q", "Q", "Q", "Q", "Q", "Q", "Q", "Q", "Q", "Q", "Q", "Q", "Q", "Q", "Q", "Q", "Q", "Q", "Q", "Q", "Q", "Q", "Q", "Q", "Q", "Q", "Q", "Q", "Q", "Q">>,
      <<"Q", "Q", "Q", "Q", "Q", "Q", "Q", "Q", "Q", "Q", "Q", "Q", "Q", "Q", "Q", "Q", "Q", "Q", "Q", "Q", "Q", "Q", "Q", "Q", "Q", "Q", "Q", "Q", "Q", "Q", "Q", "Q", "Q", "Q", "Q", "Q", "Q", "Q", "Q", "Q", "Q", "Q", "Q", "Q", "Q", "Q", "Q", "Q", "Q", "Q">>,
      <<"Q", "Q", "Q", "Q", "Q", "Q", "Q", "Q", "Q", "Q", "Q", "Q", "Q", "Q", "Q", "Q", "Q", "Q", "Q", "Q", "Q", "Q", "Q", "Q", "Q", "Q", "Q", "Q", "Q", "Q", "Q", "Q", "Q", "Q", "Q", "Q", "Q", "Q", "Q", "Q", "Q", "Q", "Q", "Q", "Q", "Q", "Q", "Q", "Q", "Q", "Q", "Q", "Q", "Q", "Q", "Q", "Q", "Q", "Q", "Q">> }

MerchantInputs ==
    {PyStr(s) : s \in StringsUpTo(MerchantAlphabet, MaxMerchantLen) \cup CuratedMerchants}
        \cup NonStrings

InitMerchant ==
    /\ current_year = 2024
    /\ date = EmptyStr
    /\ merchant \in MerchantInputs
    /\ amount = EmptyStr
    /\ pc = "call"
    /\ result = PyNone
    /\ ProcessIdle
    /\ WorkersIdle

\* one call of normalize_merchant(merchant)
CallNormalizeMerchant ==
    /\ pc = "call"
    /\ result' = normalize_merchant(merchant)
    /\ pc' = "return"
    /\ UNCHANGED <<current_year, date, merchant, amount>>
    /\ UNCHANGED processVars
    /\ UNCHANGED workerVars

NextMerchant == CallNormalizeMerchant

SpecMerchant == InitMerchant /\ [][NextMerchant]_vars

(***************************************************************************)
(* Inputs of normalize_transaction and the specification that applies it   *)
(***************************************************************************)
TransactionDates ==
    { <<"2", "0", "2", "3", "-", "0", "1", "-", "1", "5">>,
      <<" ", " ", "2", "0", "2", "3", "-", "0", "1", "-", "1", "5", " ", " ">>,
      <<"2", "0", "2", "4", "-", "0", "2", "-", "2", "9">>,
      <<"2", "0", "2", "3", "-", "0", "2", "-", "2", "9">>,
      <<"1", "5", "/", "0", "1", "/", "2", "0", "2", "3">>,
      <<"2", "0", "2", "5", "-", "0", "6", "-", "1", "5">>,
      <<"I", "n", "v", "a", "l", "i", "d", " ", "D", "a", "t", "e">>,
      <<>>,
      <<" ", " ", " ">> }

TransactionMerchants ==
    { <<"S", "T", "A", "R", "B", "U", "C", "K", "S", " ", "#", "1", "2", "3", "4">>,
      <<" ", "S", "t", "o", "r", "e", " ">>,
      <<" ", " ", " ">> }

TransactionAmounts ==
    { <<"$", "5", ".", "5", "0">>,
      <<" ", "4", "5", ".", "5", "0", " ">>,
      <<"-", "$", "2", "5", ".", "0", "0">>,
      <<"1", "2", ".", "3", "4", "5">>,
      <<"1", "0", "0", "0", "0", "0", "0", ".", "0", "0">>,
      <<"I", "n", "v", "a", "l", "i", "d">>,
      <<>>,
      <<"$", "9", "9", "9", "9", "9", "9", "9", "9", "9", ".", "9", "9">>,
      <<"1", "1", "1", "1", "1", "1", "1", "1", "1", "1", "1", "1", "1", "1", "1", "1", "1", "1", "1", "1", "1", "1", "1", "1", "1", "1", "1">> }

Values(strings) == {PyStr(s) : s \in strings} \cup {PyNone, PyInt(45)}

\* every merchant input with two dates and one amount, and a few merchants with
\* every date and amount above
TransactionInputs ==
    (Values(TransactionDates) \X Values(TransactionMerchants) \X Values(TransactionAmounts))
        \cup ({PyStr(<<"2", "0", "2", "3", "-", "0", "1", "-", "1", "5">>),
               PyStr(<<"I", "n", "v", "a", "l", "i", "d", " ", "D", "a", "t", "e">>)}
                  \X MerchantInputs
                  \X {PyStr(<<"$", "5", ".", "5", "0">>)})

Init ==
    /\ current_year \in CurrentYears
    /\ \E input \in TransactionInputs :
           /\ date = input[1]
           /\ merchant = input[2]
           /\ amount = input[3]
    /\ pc = "call"
    /\ result = PyNone
    /\ ProcessIdle
    /\ WorkersIdle

\* one call of normalize_transaction(date, merchant, amount)
CallNormalizeTransaction ==
    /\ pc = "call"
    /\ result' = normalize_transaction(date, merchant, amount, current_year)
    /\ pc' = "return"
    /\ UNCHANGED <<current_year, date, merchant, amount>>
    /\ UNCHANGED processVars
    /\ UNCHANGED workerVars

Next == CallNormalizeTransaction

Spec == Init /\ [][Next]_vars

(***************************************************************************)
(* Inputs of get_normalization_stats and the specification that applies it *)
(***************************************************************************)
\* the longest list of records
MaxBatch == 3

BatchInputs ==
    { <<PyStr(<<"2", "0", "2", "3", "-", "0", "1", "-", "1", "5">>),
         PyStr(<<"S", "T", "A", "R", "B", "U", "C", "K", "S">>),
         PyStr(<<"$", "5", ".", "5", "0">>)>>,
      <<PyStr(<<"2", "0", "2", "3", "-", "0", "1", "-", "1", "6">>),
         PyStr(<<"S", "t", "o", "r", "e">>),
         PyStr(<<"$", "1", "0", ".", "0", "0">>)>>,
      <<PyStr(<<"I", "n", "v", "a", "l", "i", "d">>),
         PyStr(<<"S", "T", "A", "R", "B", "U", "C", "K", "S">>),
         PyStr(<<"$", "5", ".", "0", "0">>)>>,
      <<PyStr(<<"2", "0", "2", "3", "-", "0", "1", "-", "0", "3">>),
         PyStr(<<"A", "m", "a", "z", "o", "n">>),
         PyStr(<<"I", "n", "v", "a", "l", "i", "d">>)>>,
      <<PyStr(<<>>),
         PyNone,
         PyStr(<<>>)>> }

\* the records normalize_transaction makes of the inputs
BatchRecords(this_year) ==
    {normalize_transaction(input[1], input[2], input[3], this_year) : input \in BatchInputs}

CallIdle ==
    /\ date = EmptyStr
    /\ merchant = EmptyStr
    /\ amount = EmptyStr
    /\ result = PyNone

InitStats ==
    /\ current_year = 2024
    /\ CallIdle
    /\ pc = "call"
    /\ input_file = PyNone
    /\ transactions = <<>>
    /\ normalized_results \in StringsUpTo(BatchRecords(current_year), MaxBatch)
    /\ stats = PyNone
    /\ exit_code = PyNone
    /\ output_file = PyNone
    /\ report_file = PyNone
    /\ position = 0
    /\ cleaned_transactions = <<>>
    /\ written = NothingWritten
    /\ analyzer = PyNone
    /\ WorkersIdle

\* one call of get_normalization_stats(normalized_results)
CallGetNormalizationStats ==
    /\ pc = "call"
    /\ stats' = get_normalization_stats(normalized_results)
    /\ pc' = "return"
    /\ UNCHANGED <<current_year, input_file, transactions, normalized_results, exit_code>>
    /\ UNCHANGED <<output_file, report_file, position, cleaned_transactions>>
    /\ UNCHANGED <<written, analyzer>>
    /\ UNCHANGED callVars
    /\ UNCHANGED workerVars

NextStats == CallGetNormalizationStats

SpecStats == InitStats /\ [][NextStats]_vars

(***************************************************************************)
(* Concurrent calls of normalize_transaction, one statement group at a     *)
(* time: the record is created (lines 241-251), then the date, the         *)
(* merchant and the amount are normalized (254-258, 261-263, 266-270) and  *)
(* the record is returned (272).  The "errors" entry of a record refers to *)
(* a list object of the heap.                                              *)
(***************************************************************************)
\* the number of concurrent callers
NumWorkers == 2

Workers == 1..NumWorkers

\* a list display that yields one list object shared by every record
NewListShared(h) ==
    [heap |-> IF Len(h) = 0 THEN <<<<>>>> ELSE h, ref |-> 1]

\* line 250: the list display [] makes a new list object
NewList(h) == [heap |-> Append(h, <<>>), ref |-> Len(h) + 1]

\* the record with its list of errors read from the heap
Deref(rec, h) == [rec EXCEPT !.errors = h[rec.errors]]

\* the record with its list of errors replaced by the reference ref
WithRef(rec, ref) == [rec EXCEPT !.errors = ref]

\* the arguments of the concurrent calls
ConcurrentInputs ==
    { <<PyStr(<<"2", "0", "2", "3", "-", "0", "1", "-", "1", "5">>),
         PyStr(<<"b">>),
         PyStr(<<"$", "5", ".", "5", "0">>)>>,
      <<PyStr(<<"I", "n", "v", "a", "l", "i", "d">>),
         PyStr(<<"b">>),
         PyStr(<<"5">>)>>,
      <<PyStr(<<>>),
         PyNone,
         PyStr(<<>>)>> }

InitConcurrent ==
    /\ current_year = 2024
    /\ CallIdle
    /\ ProcessIdle
    /\ pc = "run"
    /\ calls \in [Workers -> {[pc |-> "call", date |-> input[1], merchant |-> input[2],
                               amount |-> input[3], normalized |-> PyNone] :
                                  input \in ConcurrentInputs}]
    /\ heap = <<>>
    /\ knowledge_base = MERCHANT_CATEGORIES

\* lines 241-251
CreateRecord(w) ==
    /\ calls[w].pc = "call"
    /\ LET new == NewList(heap)
           c == calls[w]
       IN  /\ heap' = new.heap
           /\ calls' = [calls EXCEPT
                  ![w].normalized = WithRef(InitialRecord(c.date, c.merchant, c.amount), new.ref),
                  ![w].pc = "date"]
    /\ UNCHANGED <<current_year, pc, knowledge_base>>
    /\ UNCHANGED callVars
    /\ UNCHANGED processVars

\* lines 254-258
NormalizeDateStep(w) ==
    /\ calls[w].pc = "date"
    /\ LET c == calls[w]
           rec == WithDate(Deref(c.normalized, heap), normalize_date(c.date, current_year), c.date)
       IN  /\ heap' = [heap EXCEPT ![c.normalized.errors] = rec.errors]
           /\ calls' = [calls EXCEPT ![w].normalized = WithRef(rec, c.normalized.errors),
                                     ![w].pc = "merchant"]
    /\ UNCHANGED <<current_year, pc, knowledge_base>>
    /\ UNCHANGED callVars
    /\ UNCHANGED processVars

\* lines 261-263
NormalizeMerchantStep(w) ==
    /\ calls[w].pc = "merchant"
    /\ LET c == calls[w]
       IN  calls' = [calls EXCEPT
               ![w].normalized = WithMerchant(c.normalized, normalize_merchant(c.merchant)),
               ![w].pc = "amount"]
    /\ UNCHANGED <<current_year, pc, heap, knowledge_base>>
    /\ UNCHANGED callVars
    /\ UNCHANGED processVars

\* lines 266-270
NormalizeAmountStep(w) ==
    /\ calls[w].pc = "amount"
    /\ LET c == calls[w]
           rec == WithAmount(Deref(c.normalized, heap), normalize_amount(c.amount), c.amount)
       IN  /\ heap' = [heap EXCEPT ![c.normalized.errors] = rec.errors]
           /\ calls' = [calls EXCEPT ![w].normalized = WithRef(rec, c.normalized.errors),
                                     ![w].pc = "return"]
    /\ UNCHANGED <<current_year, pc, knowledge_base>>
    /\ UNCHANGED callVars
    /\ UNCHANGED processVars

\* line 272
ReturnRecord(w) ==
    /\ calls[w].pc = "return"
    /\ calls' = [calls EXCEPT ![w].pc = "done"]
    /\ UNCHANGED <<current_year, pc, heap, knowledge_base>>
    /\ UNCHANGED callVars
    /\ UNCHANGED processVars

\* get_normalization_stats over the returned records
CollectStats ==
    /\ pc = "run"
    /\ \A w \in Workers : calls[w].pc = "done"
    /\ stats' = get_normalization_stats([w \in Workers |-> Deref(calls[w].normalized, heap)])
    /\ pc' = "return"
    /\ UNCHANGED <<current_year, input_file, transactions, normalized_results, exit_code>>
    /\ UNCHANGED <<output_file, report_file, position, cleaned_transactions>>
    /\ UNCHANGED <<written, analyzer>>
    /\ UNCHANGED callVars
    /\ UNCHANGED workerVars

NextConcurrent ==
    \/ \E w \in Workers :
           \/ CreateRecord(w)
           \/ NormalizeDateStep(w)
           \/ NormalizeMerchantStep(w)
           \/ NormalizeAmountStep(w)
           \/ ReturnRecord(w)
    \/ CollectStats

SpecConcurrent == InitConcurrent /\ [][NextConcurrent]_vars

(***************************************************************************)
(* One call of normalize_transaction, one statement group at a time, with  *)
(* the loop of normalize_merchant (lines 122-130) one (category, keyword)  *)
(* pair at a time.  The caller's record holds the loop's locals: the       *)
(* stripped name, the comparison key, the index of the next pair, the best *)
(* pair so far and the number of calls of fuzz.partial_ratio made.  The    *)
(* call runs on one thread that nothing suspends, so a step that can be    *)
(* taken is taken.  The values of normalize_date, normalize_amount and     *)
(* fuzz.partial_ratio on the arguments of StepInputs are tabulated.        *)
(***************************************************************************)
\* the one caller
Caller == "caller"

StepMerchants ==
    { PyNone,
      PyStr(<<>>),
      PyStr(<<" ", " ", " ">>),
      PyStr(<<"b">>),
      PyStr(<<"S", "T", "A", "R", "B", "U", "C", "K", "S", " ", "#", "1", "2", "3", "4">>),
      PyStr(<<"R", "a", "n", "d", "o", "m", " ", "S", "t", "o", "r", "e">>),
      PyStr(<<"U", "B", "E", "R", " ", "*", "T", "R", "I", "P">>),
      PyStr(<<"A", "M", "Z", "N", " ", "M", "k", "t", "p", " ", "U", "S">>) }

StepInputs ==
    {<<input[1], m, input[3]>> : input \in ConcurrentInputs, m \in StepMerchants}

\* normalize_date(date_string, current_year) for the dates of StepInputs
DateResults ==
    {[date_string |-> input[1], year |-> 2024, value |-> normalize_date(input[1], 2024)] :
         input \in StepInputs}

\* normalize_amount(amount_string) for the amounts of StepInputs
AmountResults ==
    {[amount_string |-> input[3], value |-> normalize_amount(input[3])] : input \in StepInputs}

\* lines 106 and 114-115: the stripped name and the comparison key of the merchant
\* strings of StepInputs
MerchantKeys ==
    {[merchant_name |-> m, cleaned |-> Strip(m.val),
      comparison_name |-> ComparisonName(Strip(m.val))] :
         m \in {x \in StepMerchants : IsStr(x)}}

\* line 125: fuzz.partial_ratio(comparison_name, keyword.lower()) for the comparison
\* keys of StepInputs and the pairs of the knowledge base
Scores ==
    {[comparison_name |-> key.comparison_name, index |-> i,
      value |-> partial_ratio(key.comparison_name, Lower(KnowledgePairs[i].keyword))] :
         key \in MerchantKeys, i \in 1..Len(KnowledgePairs)}

InitSteps ==
    /\ current_year = 2024
    /\ CallIdle
    /\ ProcessIdle
    /\ pc = "run"
    /\ calls \in [{Caller} -> {[pc |-> "call", date |-> input[1], merchant |-> input[2],
                                amount |-> input[3], normalized |-> PyNone,
                                cleaned |-> <<>>, comparison_name |-> <<>>,
                                index |-> 0, best |-> NoMatch, scores |-> 0] :
                                   input \in StepInputs}]
    /\ heap = <<>>
    /\ knowledge_base = MERCHANT_CATEGORIES

\* lines 254-258
DateStep(w) ==
    /\ calls[w].pc = "date"
    /\ LET c == calls[w]
           rec == WithDate(Deref(c.normalized, heap), (CHOOSE r \in DateResults :
                              r.date_string = c.date /\ r.year = current_year).value, c.date)
       IN  /\ heap' = [heap EXCEPT ![c.normalized.errors] = rec.errors]
           /\ calls' = [calls EXCEPT ![w].normalized = WithRef(rec, c.normalized.errors),
                                     ![w].pc = "merchant"]
    /\ UNCHANGED <<current_year, pc, knowledge_base>>
    /\ UNCHANGED callVars
    /\ UNCHANGED processVars

\* lines 101-120: the early returns, the two keys and the initial best match
EnterMerchantLoop(w) ==
    /\ calls[w].pc = "merchant"
    /\ LET c == calls[w]
           key == CHOOSE r \in MerchantKeys : r.merchant_name = c.merchant
       IN  IF ~Truthy(c.merchant) \/ ~IsStr(c.merchant)
           THEN calls' = [calls EXCEPT
                    ![w].normalized = WithMerchant(c.normalized, MerchantResult(Unknown, Other)),
                    ![w].pc = "amount"]
           ELSE IF Len(key.cleaned) = 0
           THEN calls' = [calls EXCEPT
                    ![w].normalized = WithMerchant(c.normalized, MerchantResult(Unknown, Other)),
                    ![w].pc = "amount"]
           ELSE calls' = [calls EXCEPT
                    ![w].cleaned = key.cleaned,
                    ![w].comparison_name = key.comparison_name,
                    ![w].best = NoMatch,
                    ![w].index = 1,
                    ![w].pc = "score"]
    /\ UNCHANGED <<current_year, pc, heap, knowledge_base>>
    /\ UNCHANGED callVars
    /\ UNCHANGED processVars

\* an iteration that does not move on to the next pair
ScoredPairStaying(c) ==
    LET pair == KnowledgePairs[c.index]
        score == (CHOOSE r \in Scores :
                     r.comparison_name = c.comparison_name /\ r.index = c.index).value
        replaces == ScoreGreater(score, c.best.score)
                        /\ ScoreAtLeast(score, FUZZY_MATCH_THRESHOLD)
    IN  [c EXCEPT !.best = IF replaces
                           THEN [score |-> score, category |-> pair.category,
                                 name |-> Title(pair.keyword)]
                           ELSE c.best]

\* lines 123-130: one iteration of the inner loop, for the pair at c.index
ScoredPair(c) ==
    LET pair == KnowledgePairs[c.index]
        score == (CHOOSE r \in Scores :
                     r.comparison_name = c.comparison_name /\ r.index = c.index).value
        replaces == ScoreGreater(score, c.best.score)
                        /\ ScoreAtLeast(score, FUZZY_MATCH_THRESHOLD)
    IN  [c EXCEPT !.best = IF replaces
                           THEN [score |-> score, category |-> pair.category,
                                 name |-> Title(pair.keyword)]
                           ELSE c.best,
                  !.scores = c.scores + 1,
                  !.index = c.index + 1]

\* lines 122-130: the two for loops take the next pair while one is left
ScoreNextPair(w) ==
    /\ calls[w].pc = "score"
    /\ calls[w].index <= Len(KnowledgePairs)
    /\ calls' = [calls EXCEPT ![w] = ScoredPair(calls[w])]
    /\ UNCHANGED <<current_year, pc, heap, knowledge_base>>
    /\ UNCHANGED callVars
    /\ UNCHANGED processVars

\* lines 132-139: the loops are exhausted, the result is taken from the best match
LeaveMerchantLoop(w) ==
    /\ calls[w].pc = "score"
    /\ calls[w].index > Len(KnowledgePairs)
    /\ LET c == calls[w]
           merchant_result ==
               IF Len(c.best.category) > 0 /\ Len(c.best.name) > 0
               THEN MerchantResult(c.best.name, c.best.category)
               ELSE MerchantResult(DisplayName(c.cleaned), Other)
       IN  calls' = [calls EXCEPT
               ![w].normalized = WithMerchant(c.normalized, merchant_result),
               ![w].pc = "amount"]
    /\ UNCHANGED <<current_year, pc, heap, knowledge_base>>
    /\ UNCHANGED callVars
    /\ UNCHANGED processVars

\* lines 266-270
AmountStep(w) ==
    /\ calls[w].pc = "amount"
    /\ LET c == calls[w]
           rec == WithAmount(Deref(c.normalized, heap), (CHOOSE r \in AmountResults : r.amount_string = c.amount).value, c.amount)
       IN  /\ heap' = [heap EXCEPT ![c.normalized.errors] = rec.errors]
           /\ calls' = [calls EXCEPT ![w].normalized = WithRef(rec, c.normalized.errors),
                                     ![w].pc = "return"]
    /\ UNCHANGED <<current_year, pc, knowledge_base>>
    /\ UNCHANGED callVars
    /\ UNCHANGED processVars

NextSteps ==
    \E w \in {Caller} :
        \/ CreateRecord(w)
        \/ DateStep(w)
        \/ EnterMerchantLoop(w)
        \/ ScoreNextPair(w)
        \/ LeaveMerchantLoop(w)
        \/ AmountStep(w)
        \/ ReturnRecord(w)

SpecSteps == InitSteps /\ [][NextSteps]_vars /\ WF_vars(NextSteps)

(***************************************************************************)
(* process_transactions (src/main.py), one statement group at a time:      *)
(* parse, the normalization loop, the statistics, the output directories,  *)
(* the cleaned output, the analysis.  A step that touches the file system  *)
(* either completes or raises.                                             *)
(***************************************************************************)
\* line 127: result['row_number'] = t.get('row_number')
WithRowNumber(rec, row_number) ==
    [k \in DOMAIN rec \cup {"row_number"} |->
        IF k = "row_number" THEN row_number ELSE rec[k]]

\* an append that puts the result in front
AppendedFirst(results, r) == <<r>> \o results

\* line 128: normalized_results.append(result)
Appended(results, r) == Append(results, r)

\* output rows made of every record, valid or not
CleanedRowsOfAll(results) ==
    [i \in 1..Len(results) |->
        [date |-> results[i].normalized_date,
         merchant |-> results[i].normalized_merchant,
         amount |-> IF IsNone(results[i].normalized_amount)
                    THEN PyStr(<<"N", "o", "n", "e">>)
                    ELSE PyStr(DecimalStr(results[i].normalized_amount)),
         category |-> results[i].category]]

\* lines 157-165: the valid records, in order, as output rows
CleanedRows(results) ==
    LET valid == SelectSeq(results, RecordIsValid)
    IN  [i \in 1..Len(valid) |->
            [date |-> valid[i].normalized_date,
             merchant |-> valid[i].normalized_merchant,
             amount |-> PyStr(DecimalStr(valid[i].normalized_amount)),
             category |-> valid[i].category]]

\* t.get('is_valid', True)
IsValidOrDefault(t) == IF "is_valid" \in DOMAIN t THEN t.is_valid ELSE TRUE

\* SpendingAnalyzer.__init__ (src/src/analyzer.py lines 38-40)
SpendingAnalyzer(results) ==
    [kind |-> "SpendingAnalyzer",
     transactions |-> results,
     valid_transactions |-> SelectSeq(results, IsValidOrDefault),
     invalid_transactions |-> SelectSeq(results, LAMBDA r : ~IsValidOrDefault(r))]

(***************************************************************************)
(* SpendingAnalyzer (src/src/analyzer.py): Decimal sums and quotients,     *)
(* get_total_spending and get_statistics.  Coefficients are added as       *)
(* integers: the amounts of a batch are within the accepted range, so a    *)
(* sum stays far below 2^31 hundredths.                                    *)
(***************************************************************************)
DecimalZero == PyDecimal(0, <<0>>, 0)

\* int(coefficient)
RECURSIVE CoeffToNat(_)
CoeffToNat(ds) ==
    IF Len(ds) = 0 THEN 0 ELSE 10 * CoeffToNat(SubSeq(ds, 1, Len(ds) - 1)) + ds[Len(ds)]

\* the digits of str(n)
RECURSIVE NatToCoeff(_)
NatToCoeff(n) == IF n < 10 THEN <<n>> ELSE NatToCoeff(n \div 10) \o <<n % 10>>

\* Decimal.__add__ under the default context, for results of at most 28 digits:
\* the smaller exponent, the sign of the larger magnitude, and a zero sum that is
\* negative only when both operands are negative
DecimalAdd(a, b) ==
    LET exp == IF a.exp < b.exp THEN a.exp ELSE b.exp
        ma == CoeffToNat(a.digits \o Zeros(a.exp - exp))
        mb == CoeffToNat(b.digits \o Zeros(b.exp - exp))
        va == IF a.sign = 1 THEN -ma ELSE ma
        vb == IF b.sign = 1 THEN -mb ELSE mb
        total == va + vb
    IN  IF ma = 0 /\ mb = 0
        THEN PyDecimal(IF a.sign < b.sign THEN a.sign ELSE b.sign, <<0>>, exp)
        ELSE IF total = 0 THEN PyDecimal(0, <<0>>, exp)
        ELSE IF total < 0 THEN PyDecimal(1, NatToCoeff(-total), exp)
        ELSE PyDecimal(0, NatToCoeff(total), exp)

\* divmod(int(digits), n) by long division: the quotient's digits and the remainder
RECURSIVE LongDivide(_, _, _, _)
LongDivide(ds, n, rem, quotient) ==
    IF Len(ds) = 0 THEN [quotient |-> Coefficient(quotient), remainder |-> rem]
    ELSE LongDivide(Tail(ds), n, (rem * 10 + ds[1]) % n,
                    Append(quotient, (rem * 10 + ds[1]) \div n))

\* the trailing zeros an exact quotient gives up to reach the ideal exponent
RECURSIVE TowardsIdeal(_, _, _)
TowardsIdeal(ds, exp, ideal_exp) ==
    IF exp < ideal_exp /\ Len(ds) > 1 /\ ds[Len(ds)] = 0
    THEN TowardsIdeal(SubSeq(ds, 1, Len(ds) - 1), exp + 1, ideal_exp)
    ELSE [digits |-> ds, exp |-> exp]

\* Decimal._fix: a coefficient longer than the precision is rounded half-even
DecimalFix(d) ==
    IF Len(d.digits) <= DecimalPrec THEN d
    ELSE LET changed == RoundHalfEven(d.digits, DecimalPrec)
             kept == SubSeq(d.digits, 1, DecimalPrec)
             coeff == IF changed = 1 THEN Increment(kept) ELSE kept
             exp_min == Len(d.digits) + d.exp - DecimalPrec
         IN  IF Len(coeff) > DecimalPrec
             THEN PyDecimal(d.sign, SubSeq(coeff, 1, Len(coeff) - 1), exp_min + 1)
             ELSE PyDecimal(d.sign, coeff, exp_min)

\* Decimal.__truediv__ by a positive int n: total_spending / len(amounts)
DecimalDivideByInt(d, n) ==
    IF AllZeros(d.digits) THEN PyDecimal(d.sign, <<0>>, d.exp)
    ELSE LET shift == Len(NatToCoeff(n)) - Len(d.digits) + DecimalPrec + 1
             exp == d.exp - shift
             qr == LongDivide(d.digits \o Zeros(shift), n, 0, <<>>)
         IN  IF qr.remainder # 0
             THEN DecimalFix(PyDecimal(d.sign,
                                       IF qr.quotient[Len(qr.quotient)] % 5 = 0
                                       THEN Increment(qr.quotient) ELSE qr.quotient,
                                       exp))
             ELSE LET ideal == TowardsIdeal(qr.quotient, exp, d.exp)
                  IN  DecimalFix(PyDecimal(d.sign, ideal.digits, ideal.exp))

\* t.get('normalized_amount')
AmountOf(t) == IF "normalized_amount" \in DOMAIN t THEN t.normalized_amount ELSE PyNone

\* the amounts of the records that have one (lines 46-48 and 150-154)
PresentAmounts(ts) ==
    LET with == SelectSeq(ts, LAMBDA r : ~IsNone(AmountOf(r)))
    IN  [i \in 1..Len(with) |-> AmountOf(with[i])]

\* start + amounts[1] + ... + amounts[n], left to right
RECURSIVE DecimalSum(_, _)
DecimalSum(start, amounts) ==
    IF Len(amounts) = 0 THEN start
    ELSE DecimalSum(DecimalAdd(start, amounts[1]), Tail(amounts))

\* a total over every record, valid or not
TotalOverAll(a) == DecimalSum(DecimalZero, PresentAmounts(a.transactions))

\* get_total_spending (lines 42-49)
get_total_spending(a) == DecimalSum(DecimalZero, PresentAmounts(a.valid_transactions))

\* max(amounts): the first of the largest
RECURSIVE MaxDecimal(_, _)
MaxDecimal(best, amounts) ==
    IF Len(amounts) = 0 THEN best
    ELSE MaxDecimal(IF DecimalLess(best, amounts[1]) THEN amounts[1] ELSE best, Tail(amounts))

\* min(amounts): the first of the smallest
RECURSIVE MinDecimal(_, _)
MinDecimal(best, amounts) ==
    IF Len(amounts) = 0 THEN best
    ELSE MinDecimal(IF DecimalLess(amounts[1], best) THEN amounts[1] ELSE best, Tail(amounts))

\* t.get('normalized_merchant', 'Unknown')
MerchantOf(t) ==
    IF "normalized_merchant" \in DOMAIN t THEN t.normalized_merchant ELSE PyStr(Unknown)

\* get_statistics (lines 130-174)
get_statistics(a) ==
    IF Len(a.valid_transactions) = 0
    THEN [total_transactions |-> 0,
          valid_transactions |-> 0,
          invalid_transactions |-> Len(a.invalid_transactions),
          total_spending |-> DecimalZero,
          average_transaction |-> DecimalZero,
          largest_transaction |-> DecimalZero,
          smallest_transaction |-> DecimalZero,
          unique_merchants |-> 0,
          unique_categories |-> 0]
    ELSE LET amounts == PresentAmounts(a.valid_transactions)
             total_spending == IF Len(amounts) = 0 THEN PyInt(0)
                               ELSE DecimalSum(DecimalZero, amounts)
             valid == a.valid_transactions
         IN  [total_transactions |-> Len(a.transactions),
              valid_transactions |-> Len(a.valid_transactions),
              invalid_transactions |-> Len(a.invalid_transactions),
              total_spending |-> total_spending,
              average_transaction |-> IF Len(amounts) > 0
                                      THEN DecimalDivideByInt(total_spending, Len(amounts))
                                      ELSE DecimalZero,
              largest_transaction |-> IF Len(amounts) > 0
                                      THEN MaxDecimal(amounts[1], Tail(amounts))
                                      ELSE DecimalZero,
              smallest_transaction |-> IF Len(amounts) > 0
                                       THEN MinDecimal(amounts[1], Tail(amounts))
                                       ELSE DecimalZero,
              unique_merchants |-> Cardinality({MerchantOf(valid[i]) : i \in 1..Len(valid)}),
              unique_categories |-> Cardinality({CategoryOf(valid[i]) : i \in 1..Len(valid)})]

\* the most data lines of an input file
MaxRows == 2

HeaderDateFirst == <<<<"d", "a", "t", "e">>, <<"m", "e", "r", "c", "h", "a", "n", "t">>, <<"a", "m", "o", "u", "n", "t">>>>
HeaderMerchantFirst == <<<<"M", "E", "R", "C", "H", "A", "N", "T">>, <<" ", "D", "a", "t", "e", " ">>, <<"A", "m", "o", "u", "n", "t">>>>
HeaderNoAmount == <<<<"d", "a", "t", "e">>, <<"m", "e", "r", "c", "h", "a", "n", "t">>>>
HeaderBlank == <<>>

\* data lines: a valid row, an invalid row, a row of blank cells, a short row, a
\* row with one cell too many, a blank line
LinesDateFirst ==
    { <<<<" ", "2", "0", "2", "3", "-", "0", "1", "-", "1", "5">>, <<"b", " ">>, <<"$", "5", ".", "5", "0">>>>,
      <<<<"I", "n", "v", "a", "l", "i", "d">>, <<"b">>, <<"5">>>>,
      <<<<" ">>, <<>>, <<" ">>>>,
      <<<<"2", "0", "2", "3", "-", "0", "1", "-", "1", "5">>>>,
      <<<<"2", "0", "2", "3", "-", "0", "1", "-", "1", "5">>, <<"b">>, <<"5">>, <<"x">>>>,
      <<>> }

LinesMerchantFirst ==
    { <<<<"b", " ">>, <<" ", "2", "0", "2", "3", "-", "0", "1", "-", "1", "5">>, <<"$", "5", ".", "5", "0">>>>,
      <<<<"b">>, <<"I", "n", "v", "a", "l", "i", "d">>, <<"5">>>>,
      <<<<>>, <<" ">>, <<>>>>,
      <<<<"b">>>>,
      <<<<"b">>, <<"2", "0", "2", "3", "-", "0", "1", "-", "1", "5">>, <<"5">>, <<"x">>>>,
      <<>> }

TextFile(header, lines) == [status |-> "text", lines |-> <<header>> \o lines]

InputFiles ==
    {[status |-> s, lines |-> <<>>] : s \in {"missing", "empty", "undecodable"}}
    \cup {TextFile(HeaderDateFirst, ls) : ls \in StringsUpTo(LinesDateFirst, MaxRows)}
    \cup {TextFile(HeaderMerchantFirst, ls) : ls \in StringsUpTo(LinesMerchantFirst, MaxRows)}
    \cup {TextFile(h, ls) : h \in {HeaderNoAmount, HeaderBlank},
                            ls \in StringsUpTo(LinesDateFirst, MaxRows)}

FileNames == {PyNone, PyStr(<<"o">>)}

InitProcess ==
    /\ current_year = 2024
    /\ CallIdle
    /\ WorkersIdle
    /\ pc = "parse"
    /\ input_file \in InputFiles
    /\ output_file \in FileNames
    /\ report_file \in FileNames
    /\ transactions = <<>>
    /\ normalized_results = <<>>
    /\ stats = PyNone
    /\ exit_code = PyNone
    /\ position = 0
    /\ cleaned_transactions = <<>>
    /\ written = NothingWritten
    /\ analyzer = PyNone

\* the function returns code
Return(code) ==
    /\ exit_code' = PyInt(code)
    /\ pc' = "done"

\* lines 98-105 and 200-202: parse; a ParserError or no transaction returns 1
ParseTransactions ==
    /\ pc = "parse"
    /\ \E parsed \in {parse_transactions_csv(input_file)} :
           IF IsRaise(parsed)
           THEN Return(1) /\ UNCHANGED <<transactions, position>>
           ELSE IF Len(parsed.val) = 0
           THEN /\ transactions' = parsed.val
                /\ Return(1)
                /\ UNCHANGED position
           ELSE /\ transactions' = parsed.val
                /\ position' = 1
                /\ pc' = "normalize"
                /\ UNCHANGED exit_code
    /\ UNCHANGED <<current_year, input_file, output_file, report_file, normalized_results,
                   stats, cleaned_transactions, written, analyzer>>
    /\ UNCHANGED callVars
    /\ UNCHANGED workerVars

\* lines 120-129: one pass of the loop body
NormalizeNext ==
    /\ pc = "normalize"
    /\ position <= Len(transactions)
    /\ \E t \in {transactions[position]} :
         \E normalized \in {normalize_transaction(t.date, t.merchant, t.amount, current_year)} :
           IF IsRaise(normalized)
           THEN Return(1) /\ UNCHANGED <<normalized_results, position>>
           ELSE /\ normalized_results' =
                       Appended(normalized_results, WithRowNumber(normalized, t.row_number))
                /\ position' = position + 1
                /\ UNCHANGED <<pc, exit_code>>
    /\ UNCHANGED <<current_year, input_file, output_file, report_file, transactions,
                   stats, cleaned_transactions, written, analyzer>>
    /\ UNCHANGED callVars
    /\ UNCHANGED workerVars

\* line 131: the statistics, once the loop has ended
GetStats ==
    /\ pc = "normalize"
    /\ position > Len(transactions)
    /\ stats' = get_normalization_stats(normalized_results)
    /\ pc' = "mkdir"
    /\ UNCHANGED <<current_year, input_file, output_file, report_file, transactions,
                   normalized_results, exit_code, position, cleaned_transactions,
                   written, analyzer>>
    /\ UNCHANGED callVars
    /\ UNCHANGED workerVars

\* lines 144-150 and 206-211: the directories of the requested files are made; an
\* OSError returns 1
MakeDirectories ==
    /\ pc = "mkdir"
    /\ \E ok \in BOOLEAN :
           IF ok \/ ~(Truthy(output_file) \/ Truthy(report_file))
           THEN pc' = "write" /\ UNCHANGED exit_code
           ELSE Return(1)
    /\ UNCHANGED <<current_year, input_file, output_file, report_file, transactions,
                   normalized_results, stats, position, cleaned_transactions,
                   written, analyzer>>
    /\ UNCHANGED callVars
    /\ UNCHANGED workerVars

\* lines 153-172: the valid records are written when an output file is requested;
\* write_transactions_csv writes nothing for no row and raises ParserError when the
\* file cannot be written
WriteCleaned ==
    /\ pc = "write"
    /\ IF ~Truthy(output_file)
       THEN /\ pc' = "analyze"
            /\ UNCHANGED <<cleaned_transactions, written, exit_code>>
       ELSE /\ cleaned_transactions' = CleanedRows(normalized_results)
            /\ \E ok \in BOOLEAN :
                   IF Len(cleaned_transactions') = 0
                   THEN pc' = "analyze" /\ UNCHANGED <<written, exit_code>>
                   ELSE IF ok
                   THEN /\ written' = [written EXCEPT !.output = cleaned_transactions']
                        /\ pc' = "analyze"
                        /\ UNCHANGED exit_code
                   ELSE Return(1) /\ UNCHANGED written
    /\ UNCHANGED <<current_year, input_file, output_file, report_file, transactions,
                   normalized_results, stats, position, analyzer>>
    /\ UNCHANGED callVars
    /\ UNCHANGED workerVars

\* lines 177-198: the analysis (src/src/analyzer.py lines 315-338), the report when
\* one is requested, and return 0; an OSError of the report file returns 1
Analyze ==
    /\ pc = "analyze"
    /\ \E ok \in BOOLEAN :
           IF ok \/ ~Truthy(report_file)
           THEN /\ analyzer' = SpendingAnalyzer(normalized_results)
                /\ written' = IF Truthy(report_file)
                              THEN [written EXCEPT !.report = PyStr(<<"r", "e", "p", "o", "r", "t">>)]
                              ELSE written
                /\ Return(0)
           ELSE Return(1) /\ UNCHANGED <<analyzer, written>>
    /\ UNCHANGED <<current_year, input_file, output_file, report_file, transactions,
                   normalized_results, stats, position, cleaned_transactions>>
    /\ UNCHANGED callVars
    /\ UNCHANGED workerVars

NextProcess ==
    \/ ParseTransactions
    \/ NormalizeNext
    \/ GetStats
    \/ MakeDirectories
    \/ WriteCleaned
    \/ Analyze

SpecProcess == InitProcess /\ [][NextProcess]_vars

(***************************************************************************)
(* Inputs of SpendingAnalyzer and the specification that applies it: the   *)
(* analyzer is constructed over a list of records, then get_statistics and *)
(* get_total_spending are called on it.                                    *)
(***************************************************************************)
AnalyzerInputs ==
    { <<PyStr(<<"2", "0", "2", "3", "-", "0", "1", "-", "1", "5">>), PyStr(<<"b">>), PyStr(<<"$", "5", ".", "5", "0">>)>>,
      <<PyStr(<<"2", "0", "2", "3", "-", "0", "1", "-", "1", "6">>), PyStr(<<"S", "t", "o", "r", "e">>), PyStr(<<"-", "$", "2", ".", "2", "5">>)>>,
      <<PyStr(<<"I", "n", "v", "a", "l", "i", "d">>), PyStr(<<"b">>), PyStr(<<"5">>)>>,
      <<PyStr(<<"2", "0", "2", "3", "-", "0", "1", "-", "0", "3">>), PyStr(<<"b">>), PyStr(<<"I", "n", "v", "a", "l", "i", "d">>)>>,
      <<PyStr(<<"2", "0", "2", "3", "-", "0", "1", "-", "1", "5">>), PyStr(<<"b">>), PyStr(<<"1", "0", "0", "0", "0", "0", "0">>)>> }

\* a record marked valid that has no amount (src/tests/test_analyzer.py lines 137-146)
ValidWithoutAmount ==
    [kind |-> "dict", normalized_amount |-> PyNone, is_valid |-> TRUE,
     normalized_merchant |-> PyStr(<<"A">>), category |-> PyStr(<<"c", "a", "t", "1">>)]

AnalyzerRecords(this_year) ==
    {normalize_transaction(input[1], input[2], input[3], this_year) : input \in AnalyzerInputs}
    \cup {ValidWithoutAmount}

InitAnalyzer ==
    /\ current_year = 2024
    /\ CallIdle
    /\ WorkersIdle
    /\ pc = "call"
    /\ input_file = PyNone
    /\ transactions = <<>>
    /\ normalized_results \in StringsUpTo(AnalyzerRecords(current_year), MaxBatch)
    /\ stats = PyNone
    /\ exit_code = PyNone
    /\ output_file = PyNone
    /\ report_file = PyNone
    /\ position = 0
    /\ cleaned_transactions = <<>>
    /\ written = NothingWritten
    /\ analyzer = PyNone

\* SpendingAnalyzer(normalized_results)
ConstructAnalyzer ==
    /\ pc = "call"
    /\ analyzer' = SpendingAnalyzer(normalized_results)
    /\ pc' = "constructed"
    /\ UNCHANGED <<current_year, input_file, transactions, normalized_results, stats,
                   exit_code, output_file, report_file, position, cleaned_transactions,
                   written>>
    /\ UNCHANGED callVars
    /\ UNCHANGED workerVars

\* analyzer.get_statistics()
CallGetStatistics ==
    /\ pc = "constructed"
    /\ stats = PyNone
    /\ stats' = get_statistics(analyzer)
    /\ UNCHANGED <<current_year, pc, input_file, transactions, normalized_results, analyzer,
                   exit_code, output_file, report_file, position, cleaned_transactions,
                   written>>
    /\ UNCHANGED callVars
    /\ UNCHANGED workerVars

\* analyzer.get_total_spending()
CallGetTotalSpending ==
    /\ pc = "constructed"
    /\ result = PyNone
    /\ result' = get_total_spending(analyzer)
    /\ UNCHANGED <<current_year, pc, date, merchant, amount>>
    /\ UNCHANGED processVars
    /\ UNCHANGED workerVars

NextAnalyzer ==
    \/ ConstructAnalyzer
    \/ CallGetStatistics
    \/ CallGetTotalSpending

SpecAnalyzer == InitAnalyzer /\ [][NextAnalyzer]_vars

(***************************************************************************)
(* Claims about normalize_transaction, checked under Spec                  *)
(***************************************************************************)
Returned == pc = "return"
ReturnedRecord == Returned /\ result.kind = "dict"
DateAbsent == IsNone(normalize_date(date, current_year))
AmountAbsent == IsNone(normalize_amount(amount))
DateErrorEntry == InvalidDatePrefix \o PyFormat(date)
AmountErrorEntry == InvalidAmountPrefix \o PyFormat(amount)
CategoryKeys == {MERCHANT_CATEGORIES[i].category : i \in 1..Len(MERCHANT_CATEGORIES)}

\* C1: the record normalize_transaction returns has is_valid true exactly when
\* normalized_date is not None and normalized_amount is not None.
ValidIffDateAndAmountPresent ==
    Returned =>
        /\ result.kind = "dict"
        /\ result.normalized_date = normalize_date(date, current_year)
        /\ result.normalized_amount = normalize_amount(amount)
        /\ result.is_valid <=> (~IsNone(result.normalized_date)
                                    /\ ~IsNone(result.normalized_amount))

\* a record with a date and no amount, which is not valid
ValidIffDateAndAmountPresentWitness ==
    /\ ReturnedRecord
    /\ IsStr(result.normalized_date)
    /\ IsNone(result.normalized_amount)
    /\ ~result.is_valid

\* C2: the errors sequence of the returned record is empty exactly when is_valid
\* is true.
ErrorsEmptyIffValid ==
    Returned =>
        /\ result.kind = "dict"
        /\ (Len(result.errors) = 0) <=> result.is_valid

\* a record with an amount and no date, which has an error and is not valid
ErrorsEmptyIffValidWitness ==
    /\ ReturnedRecord
    /\ IsNone(result.normalized_date)
    /\ result.normalized_amount.kind = "Decimal"
    /\ Len(result.errors) = 1
    /\ ~result.is_valid

\* C3: normalize_date, normalize_merchant, normalize_amount and
\* normalize_transaction return normally for every input; a date or amount that
\* fails to convert is None, and normalize_transaction returns a record.
NoExceptionEscapes ==
    Returned =>
        /\ normalize_date(date, current_year).kind \in {"None", "str"}
        /\ normalize_amount(amount).kind \in {"None", "Decimal"}
        /\ result.kind = "dict"
        /\ result.normalized_date.kind \in {"None", "str"}
        /\ result.normalized_amount.kind \in {"None", "Decimal"}
        /\ IsStr(result.normalized_merchant)
        /\ IsStr(result.category)

\* the parser raised on the date and quantize raised on the amount, and the record
\* is returned with both absent
NoExceptionEscapesWitness ==
    /\ ReturnedRecord
    /\ IsStr(date)
    /\ Len(Strip(date.val)) > 0
    /\ IsRaise(DateConvert(Strip(date.val), current_year))
    /\ IsStr(amount)
    /\ Len(NumericMatch(AmountCleaned(amount.val))) > 0
    /\ ~IsRaise(DecimalFromString(NumericMatch(AmountCleaned(amount.val))))
    /\ IsRaise(Quantize(DecimalFromString(NumericMatch(AmountCleaned(amount.val))), -2))
    /\ IsNone(result.normalized_date)
    /\ IsNone(result.normalized_amount)
    /\ ~result.is_valid

\* C4: errors holds the date error (embedding the raw date) when the date is absent,
\* followed by the amount error (embedding the raw amount) when the amount is
\* absent, and nothing else; the merchant adds no entry.
ErrorsInFixedOrder ==
    Returned =>
        /\ result.kind = "dict"
        /\ result.errors = (IF DateAbsent THEN <<DateErrorEntry>> ELSE <<>>)
                               \o (IF AmountAbsent THEN <<AmountErrorEntry>> ELSE <<>>)

\* both the date and the amount failed, on an unmatched merchant
ErrorsInFixedOrderWitness ==
    /\ ReturnedRecord
    /\ IsStr(date) /\ Len(date.val) > 0
    /\ IsStr(amount) /\ Len(amount.val) > 0
    /\ DateAbsent
    /\ AmountAbsent
    /\ result.category = PyStr(Other)
    /\ Len(result.errors) = 2
    /\ result.errors[1] = DateErrorEntry
    /\ result.errors[2] = AmountErrorEntry
    /\ result.errors[1] # result.errors[2]

\* C5: the display name normalize_merchant returns is a non-empty string and the
\* category is a key of MERCHANT_CATEGORIES or "other"; every record carries both,
\* valid or not.
MerchantAlwaysPresent ==
    Returned =>
        /\ result.kind = "dict"
        /\ IsStr(result.normalized_merchant)
        /\ Len(result.normalized_merchant.val) > 0
        /\ IsStr(result.category)
        /\ result.category.val \in CategoryKeys \cup {Other}

\* a record that is not valid, with a merchant of punctuation only that falls back
\* to "other"
MerchantAlwaysPresentWitness ==
    /\ ReturnedRecord
    /\ ~result.is_valid
    /\ IsStr(merchant)
    /\ Len(Strip(merchant.val)) > 0
    /\ Len(ComparisonName(Strip(merchant.val))) = 0
    /\ result.category = PyStr(Other)
    /\ Len(result.normalized_merchant.val) > 0

\* C6: raw_date, raw_merchant and raw_amount of the returned record are the three
\* arguments, unmodified.
RawFieldsVerbatim ==
    Returned =>
        /\ result.kind = "dict"
        /\ result.raw_date = date
        /\ result.raw_merchant = merchant
        /\ result.raw_amount = amount

\* padded inputs are normalized from their trimmed form and kept with the padding
RawFieldsVerbatimWitness ==
    /\ ReturnedRecord
    /\ IsStr(date) /\ Strip(date.val) # date.val
    /\ IsStr(merchant) /\ Strip(merchant.val) # merchant.val
    /\ IsStr(amount) /\ Strip(amount.val) # amount.val
    /\ result.is_valid
    /\ result.raw_date = date
    /\ result.normalized_date = PyStr(Strip(date.val))
    /\ result.raw_amount = amount

\* empty, whitespace-only or not a string
IsBlank(v) == IsStr(v) => \A i \in 1..Len(v.val) : v.val[i] = " "

\* C13: for an argument that is empty, whitespace-only or not a string,
\* normalize_date returns None, normalize_amount returns None and
\* normalize_merchant returns ("Unknown", "other").
BlankInputsAbsent ==
    Returned =>
        /\ IsBlank(date) =>
               /\ IsNone(normalize_date(date, current_year))
               /\ result.kind = "dict" /\ IsNone(result.normalized_date)
        /\ IsBlank(amount) =>
               /\ IsNone(normalize_amount(amount))
               /\ result.kind = "dict" /\ IsNone(result.normalized_amount)
        /\ IsBlank(merchant) =>
               /\ normalize_merchant(merchant)
                      = [name |-> PyStr(<<"U", "n", "k", "n", "o", "w", "n">>),
                         category |-> PyStr(<<"o", "t", "h", "e", "r">>)]
               /\ result.kind = "dict"
               /\ result.normalized_merchant = PyStr(<<"U", "n", "k", "n", "o", "w", "n">>)
               /\ result.category = PyStr(<<"o", "t", "h", "e", "r">>)

\* a whitespace-only date, a merchant that is not a string and an empty amount
BlankInputsAbsentWitness ==
    /\ ReturnedRecord
    /\ IsStr(date) /\ Len(date.val) > 0 /\ IsBlank(date)
    /\ ~IsStr(merchant)
    /\ amount = PyStr(<<>>)
    /\ IsNone(result.normalized_date)
    /\ IsNone(result.normalized_amount)
    /\ result.normalized_merchant = PyStr(<<"U", "n", "k", "n", "o", "w", "n">>)
    /\ result.category = PyStr(<<"o", "t", "h", "e", "r">>)

(***************************************************************************)
(* Claims about normalize_merchant, checked under SpecMerchant             *)
(***************************************************************************)
\* the call went past the checks of lines 101-110
MerchantCallCompared ==
    pc = "return" /\ IsStr(merchant) /\ Len(Strip(merchant.val)) > 0

MerchantKey == ComparisonName(Strip(merchant.val))

\* the score of every pair, in the order the loop visits them
PairScores(key) ==
    [i \in 1..Len(KnowledgePairs) |-> partial_ratio(key, Lower(KnowledgePairs[i].keyword))]

Qualifying(scores) == {i \in DOMAIN scores : ScoreAtLeast(scores[i], 85)}

\* the first pair whose score no qualifying pair exceeds
FirstMaximal(scores) ==
    CHOOSE i \in Qualifying(scores) :
        /\ \A j \in Qualifying(scores) : ~ScoreGreater(scores[j], scores[i])
        /\ \A j \in Qualifying(scores) : j < i => ScoreGreater(scores[i], scores[j])

\* C14: when some pair scores at least 85, normalize_merchant returns the first pair
\* in category-then-keyword order whose score is maximal among the pairs scoring at
\* least 85, as (keyword title-cased, category); a pair below 85 is never returned.
MerchantFirstBestMatch ==
    MerchantCallCompared =>
        LET scores == PairScores(MerchantKey)
        IN  IF Qualifying(scores) # {}
            THEN LET pair == KnowledgePairs[FirstMaximal(scores)]
                 IN  /\ result.name = PyStr(Title(pair.keyword))
                     /\ result.category = PyStr(pair.category)
            ELSE \A i \in DOMAIN scores :
                     result.category = PyStr(KnowledgePairs[i].category)
                         => result.name # PyStr(Title(KnowledgePairs[i].keyword))

\* an earlier pair qualified, a later pair scored strictly more and was returned, and
\* a pair after that one with the same score was not
MerchantFirstBestMatchWitness ==
    /\ MerchantCallCompared
    /\ LET scores == PairScores(MerchantKey)
       IN  /\ Qualifying(scores) # {}
           /\ \E i \in Qualifying(scores) : i < FirstMaximal(scores)
           /\ \E i \in Qualifying(scores) :
                  i > FirstMaximal(scores) /\ ScoreEqual(scores[i], scores[FirstMaximal(scores)])
           /\ result.name = PyStr(Title(KnowledgePairs[FirstMaximal(scores)].keyword))

MerchantCleaned == Strip(merchant.val)

\* C15: when no pair scores at least 85, normalize_merchant returns category "other"
\* and a display name made from the trimmed input, not from the comparison key:
\* title-cased when shorter than 50 characters, otherwise its first 50 characters
\* followed by "...", 53 characters in all.
MerchantFallbackDisplay ==
    (MerchantCallCompared /\ Qualifying(PairScores(MerchantKey)) = {}) =>
        /\ result.category = PyStr(<<"o", "t", "h", "e", "r">>)
        /\ IF Len(MerchantCleaned) < 50
           THEN result.name = PyStr(Title(MerchantCleaned))
           ELSE /\ result.name = PyStr(SubSeq(MerchantCleaned, 1, 50) \o <<".", ".", ".">>)
                /\ Len(result.name.val) = 53

\* a name of exactly 50 characters was cut and marked, keeping its own letters
MerchantFallbackDisplayWitness ==
    /\ MerchantCallCompared
    /\ Qualifying(PairScores(MerchantKey)) = {}
    /\ Len(MerchantCleaned) = 50
    /\ Len(result.name.val) = 53
    /\ SubSeq(result.name.val, 1, 50) = MerchantCleaned
    /\ SubSeq(result.name.val, 1, 50) # Title(MerchantKey)

\* normalize_date applied to a date it returned gives that date
DateIdempotent ==
    (ReturnedRecord /\ IsStr(result.normalized_date)) =>
        normalize_date(result.normalized_date, current_year) = result.normalized_date

\* normalize_amount applied to the decimal string of an amount it returned gives that amount
AmountIdempotent ==
    (ReturnedRecord /\ result.normalized_amount.kind = "Decimal") =>
        normalize_amount(PyStr(DecimalStr(result.normalized_amount))) = result.normalized_amount

\* normalize_merchant applied to a display name it returned gives that name and category
MerchantIdempotent ==
    ReturnedRecord =>
        normalize_merchant(result.normalized_merchant)
            = [name |-> result.normalized_merchant, category |-> result.category]

\* C16: normalization is idempotent on its own outputs: a returned date, the decimal
\* string of a returned amount and a returned display name each normalize to the
\* result they came from.
NormalizationIdempotent ==
    /\ DateIdempotent
    /\ AmountIdempotent
    /\ MerchantIdempotent

(***************************************************************************)
(* Claims about get_normalization_stats, checked under SpecStats           *)
(***************************************************************************)
StatsReturned == pc = "return" /\ stats # PyNone

Indices(ts) == 1..Len(ts)
ValidIndices(ts) == {i \in Indices(ts) : ts[i].is_valid}

RECURSIVE SumOf(_, _)
SumOf(f, keys) ==
    IF keys = {} THEN 0
    ELSE LET k == CHOOSE x \in keys : TRUE
         IN  f[k] + SumOf(f, keys \ {k})

\* C17: get_normalization_stats returns total = number of records, valid = number
\* with is_valid true, invalid = total - valid, success_rate = valid / total * 100
\* (0 when total is 0), date_errors and amount_errors = number of records with an
\* absent date and amount, and categories = the occurrence count of each category
\* over all records, valid or not, so that the counts sum to total.
StatsCountEveryRecord ==
    StatsReturned =>
        LET ts == normalized_results
            total == Len(ts)
            valid == Cardinality(ValidIndices(ts))
        IN  /\ stats.total_transactions = total
            /\ stats.valid_transactions = valid
            /\ stats.invalid_transactions = total - valid
            /\ IF total = 0 THEN stats.success_rate = PyInt(0)
               ELSE /\ stats.success_rate.kind = "float"
                    /\ stats.success_rate.num * total = valid * 100 * stats.success_rate.den
            /\ stats.date_errors
                   = Cardinality({i \in Indices(ts) : IsNone(ts[i].normalized_date)})
            /\ stats.amount_errors
                   = Cardinality({i \in Indices(ts) : IsNone(ts[i].normalized_amount)})
            /\ DOMAIN stats.categories = {ts[i].category : i \in Indices(ts)}
            /\ \A c \in DOMAIN stats.categories :
                   stats.categories[c] = Cardinality({i \in Indices(ts) : ts[i].category = c})
            /\ SumOf(stats.categories, DOMAIN stats.categories) = total

\* a batch of valid and invalid records in which a category is counted for a record
\* that is not valid
StatsCountEveryRecordWitness ==
    /\ StatsReturned
    /\ stats.total_transactions = 3
    /\ stats.valid_transactions = 1
    /\ stats.date_errors = 1
    /\ stats.amount_errors = 1
    /\ \E i \in Indices(normalized_results) :
           /\ ~normalized_results[i].is_valid
           /\ stats.categories[normalized_results[i].category] = 2

(***************************************************************************)
(* Claims about concurrent calls, checked under SpecConcurrent             *)
(***************************************************************************)
Done(w) == calls[w].pc = "done"

\* the record the call of w returns when it runs alone
Alone(w) ==
    normalize_transaction(calls[w].date, calls[w].merchant, calls[w].amount, current_year)

\* C18: under every interleaving of concurrent calls of normalize_transaction each
\* call returns the record it returns when run alone, no two records share their
\* list of errors, and MERCHANT_CATEGORIES is never modified by a normalization
\* or statistics step.
ConcurrentCallsIndependent ==
    /\ \A w \in DOMAIN calls : Done(w) => Deref(calls[w].normalized, heap) = Alone(w)
    /\ \A v, w \in DOMAIN calls :
           (v # w /\ calls[v].normalized # PyNone /\ calls[w].normalized # PyNone)
               => calls[v].normalized.errors # calls[w].normalized.errors
    /\ knowledge_base = MERCHANT_CATEGORIES

\* two calls whose steps were interleaved both returned, each with its own error
ConcurrentCallsIndependentWitness ==
    /\ pc = "return"
    /\ Len(heap) = 2
    /\ heap[1] # heap[2]
    /\ Len(heap[1]) > 0 /\ Len(heap[2]) > 0
    /\ heap[calls[1].normalized.errors] # heap[calls[2].normalized.errors]
    /\ \A w \in DOMAIN calls : Done(w)

\* C29: for every batch of records made by normalize_transaction the statistics
\* satisfy valid + invalid = total, date_errors <= invalid, amount_errors <= invalid
\* and invalid <= date_errors + amount_errors; invalid is 0 exactly when date_errors
\* and amount_errors are both 0.
StatsCountsAgree ==
    StatsReturned =>
        /\ stats.valid_transactions + stats.invalid_transactions = stats.total_transactions
        /\ stats.date_errors <= stats.invalid_transactions
        /\ stats.amount_errors <= stats.invalid_transactions
        /\ stats.invalid_transactions <= stats.date_errors + stats.amount_errors
        /\ stats.invalid_transactions = 0 <=>
               (stats.date_errors = 0 /\ stats.amount_errors = 0)

\* a batch with a valid record, a record with a bad date and a record with both bad
StatsCountsAgreeWitness ==
    /\ StatsReturned
    /\ stats.total_transactions = 3
    /\ stats.invalid_transactions = 2
    /\ stats.date_errors = 2
    /\ stats.amount_errors = 1
    /\ \E i \in Indices(normalized_results) :
           /\ IsNone(normalized_results[i].normalized_date)
           /\ IsNone(normalized_results[i].normalized_amount)

(***************************************************************************)
(* Claims about process_transactions, checked under SpecProcess            *)
(***************************************************************************)
\* normalize_transaction of the i-th parsed transaction
NormalizationOf(i) ==
    normalize_transaction(transactions[i].date, transactions[i].merchant,
                          transactions[i].amount, current_year)

\* the i-th result is the normalization of the i-th parsed transaction, with that
\* transaction's row number and every normalized field as normalize_transaction made it
ResultMatches(i) ==
    LET normalized == NormalizationOf(i)
    IN  /\ normalized_results[i].row_number = transactions[i].row_number
        /\ DOMAIN normalized_results[i] = DOMAIN normalized \cup {"row_number"}
        /\ \A k \in DOMAIN normalized : normalized_results[i][k] = normalized[k]

\* C19: process_transactions normalizes each parsed transaction exactly once and in
\* input order: the i-th normalized result is the normalization of the i-th parsed
\* transaction and carries its row_number, attaching row_number changes no
\* normalized field, and the statistics and the analysis see one result per parsed
\* transaction, none dropped, duplicated or reordered.
ProcessEachOnceInOrder ==
    /\ Len(normalized_results) <= Len(transactions)
    /\ pc = "normalize" => Len(normalized_results) = position - 1
    /\ \A i \in 1..Len(normalized_results) : ResultMatches(i)
    /\ stats # PyNone =>
           /\ Len(normalized_results) = Len(transactions)
           /\ stats.total_transactions = Len(transactions)
    /\ ~IsNone(analyzer) =>
           /\ Len(normalized_results) = Len(transactions)
           /\ analyzer.transactions = normalized_results

\* a run that ended with 0 after a valid and an invalid record were normalized
ProcessEachOnceInOrderWitness ==
    /\ exit_code = PyInt(0)
    /\ ~IsNone(analyzer)
    /\ Len(normalized_results) = 2
    /\ normalized_results[1].is_valid # normalized_results[2].is_valid
    /\ normalized_results[2].row_number = 3

\* the files the parser rejects: missing, empty, not UTF-8, a header without a
\* required column, or a data line with more cells than the header
FileRejected(file) ==
    \/ file.status \in {"missing", "empty", "undecodable"}
    \/ /\ file.status = "text"
       /\ \/ \E c \in REQUIRED_COLUMNS :
                 \A i \in 1..Len(file.lines[1]) : Strip(Lower(file.lines[1][i])) # c
          \/ \E n \in 2..Len(file.lines) : Len(file.lines[n]) > Len(file.lines[1])

\* every step after parsing has completed
LaterStepsCompleted ==
    /\ Len(normalized_results) = Len(transactions)
    /\ stats # PyNone
    /\ ~IsNone(analyzer)
    /\ Truthy(output_file) /\ (\E i \in 1..Len(normalized_results) : normalized_results[i].is_valid)
           => written.output = CleanedRows(normalized_results)
    /\ Truthy(report_file) => ~IsNone(written.report)

\* C20: when parse_transactions_csv raises ParserError (a missing file, an empty
\* file, a missing required column, a malformed row) process_transactions normalizes
\* no record and returns 1; otherwise every transaction handed to
\* normalize_transaction has a string date, merchant and amount; and
\* process_transactions returns 0 only when parsing gave at least one transaction
\* and every later step completed.
ParserErrorStopsPipeline ==
    /\ FileRejected(input_file) => IsRaise(parse_transactions_csv(input_file))
    /\ IsRaise(parse_transactions_csv(input_file)) =>
           /\ normalized_results = <<>>
           /\ pc \in {"parse", "done"}
           /\ pc = "done" => exit_code = PyInt(1)
    /\ \A i \in 1..Len(transactions) :
           /\ IsStr(transactions[i].date)
           /\ IsStr(transactions[i].merchant)
           /\ IsStr(transactions[i].amount)
    /\ exit_code = PyInt(0) => Len(transactions) >= 1 /\ LaterStepsCompleted

\* a run that returned 1 with nothing normalized: a valid row, then a row with one
\* cell too many
ParserErrorStopsPipelineWitness ==
    /\ pc = "done"
    /\ exit_code = PyInt(1)
    /\ input_file.status = "text"
    /\ input_file.lines[1] = HeaderDateFirst
    /\ Len(input_file.lines) = 3
    /\ Len(input_file.lines[2]) = 3
    /\ Len(input_file.lines[3]) = 4
    /\ transactions = <<>>
    /\ normalized_results = <<>>

(***************************************************************************)
(* Claims about SpendingAnalyzer, checked under SpecAnalyzer               *)
(***************************************************************************)
\* the number of records given whose is_valid equals flag
NumberWithValidity(flag) ==
    Cardinality({i \in 1..Len(normalized_results) : normalized_results[i].is_valid = flag})

\* C21: get_statistics reports total_transactions as the number of transactions
\* given, valid_transactions as the number with is_valid true and
\* invalid_transactions as the number with is_valid false, so the total is the sum
\* of the two, also when every transaction is invalid.
StatisticsCountEveryTransaction ==
    (pc = "constructed" /\ stats # PyNone) =>
        /\ stats.total_transactions = Len(normalized_results)
        /\ stats.valid_transactions = NumberWithValidity(TRUE)
        /\ stats.invalid_transactions = NumberWithValidity(FALSE)
        /\ stats.total_transactions = stats.valid_transactions + stats.invalid_transactions

\* the valid and invalid counts alone are as claimed
StatisticsSplitCounts ==
    (pc = "constructed" /\ stats # PyNone) =>
        /\ stats.valid_transactions = NumberWithValidity(TRUE)
        /\ stats.invalid_transactions = NumberWithValidity(FALSE)

\* the number of times record r occurs in the sequence ts
Occurrences(r, ts) == Cardinality({i \in 1..Len(ts) : ts[i] = r})

\* a Decimal with an exponent from -2 to 0 in hundredths, as a signed integer
Hundredths(d) ==
    LET magnitude == CoeffToNat(d.digits \o Zeros(d.exp + 2))
    IN  IF d.sign = 1 THEN -magnitude ELSE magnitude

\* the hundredths the i-th record given contributes: its amount when it is valid and
\* the amount is present, nothing otherwise
Contribution(i) ==
    IF normalized_results[i].is_valid /\ ~IsNone(normalized_results[i].normalized_amount)
    THEN Hundredths(normalized_results[i].normalized_amount)
    ELSE 0

\* the sum of the contributions of the first n records given
RECURSIVE ContributionsUpTo(_)
ContributionsUpTo(n) == IF n = 0 THEN 0 ELSE ContributionsUpTo(n - 1) + Contribution(n)

\* C22: the analyzer's valid and invalid transactions together hold every transaction
\* given exactly once, the valid ones being those with is_valid true, and
\* get_total_spending is the exact sum of normalized_amount over the valid
\* transactions that have an amount: invalid transactions and absent amounts add
\* nothing, negative amounts subtract, and the empty list gives 0.
TotalSpendingIsExactSum ==
    /\ pc = "constructed" =>
           /\ \A i \in 1..Len(normalized_results) :
                  Occurrences(normalized_results[i], analyzer.valid_transactions)
                      + Occurrences(normalized_results[i], analyzer.invalid_transactions)
                  = Occurrences(normalized_results[i], normalized_results)
           /\ Len(analyzer.valid_transactions) + Len(analyzer.invalid_transactions)
                  = Len(normalized_results)
           /\ \A i \in 1..Len(analyzer.valid_transactions) :
                  analyzer.valid_transactions[i].is_valid
           /\ \A i \in 1..Len(analyzer.invalid_transactions) :
                  ~analyzer.invalid_transactions[i].is_valid
    /\ (pc = "constructed" /\ result # PyNone) =>
           /\ result.kind = "Decimal"
           /\ Hundredths(result) = ContributionsUpTo(Len(normalized_results))
           /\ normalized_results = <<>> => result = DecimalZero

\* the total 3.25 of a purchase of 5.50, a refund of 2.25 and an invalid record that
\* has an amount
TotalSpendingIsExactSumWitness ==
    /\ pc = "constructed"
    /\ result = PyDecimal(0, <<3, 2, 5>>, -2)
    /\ Len(analyzer.valid_transactions) = 2
    /\ Len(analyzer.invalid_transactions) = 1
    /\ ~IsNone(analyzer.invalid_transactions[1].normalized_amount)

(***************************************************************************)
(* Claims about parse_transactions_csv, checked under SpecProcess          *)
(***************************************************************************)
\* the parse has returned a list
ParseReturned == pc # "parse" /\ ~IsRaise(parse_transactions_csv(input_file))

\* the data rows read: the lines after the header that have at least one cell (a
\* blank line is no row of the reader)
RowsRead ==
    LET after == SubSeq(input_file.lines, 2, Len(input_file.lines))
    IN  SelectSeq(after, LAMBDA cells : cells # <<>>)

\* the cell of a row under the column called name, "" when the row is too short
CellUnder(cells, name) ==
    LET header == input_file.lines[1]
        column == CHOOSE i \in 1..Len(header) : Strip(Lower(header[i])) = name
    IN  IF column <= Len(cells) THEN Strip(cells[column]) ELSE <<>>

\* every value of the row is empty or whitespace
RowIsBlank(cells) == \A i \in 1..Len(cells) : Strip(cells[i]) = <<>>

\* the positions, among the rows read, of the rows that are not blank
RowsKept == {n \in 1..Len(RowsRead) : ~RowIsBlank(RowsRead[n])}

\* C23: parse_transactions_csv returns the data rows in file order without the rows
\* whose values are all empty or whitespace; a skipped row consumes a row number:
\* each transaction's row_number is 1 plus the position of its row among all data
\* rows read, the first data row being 2, and row numbers increase strictly.
RowNumbersFollowRowsRead ==
    ParseReturned =>
        /\ Len(transactions) = Cardinality(RowsKept)
        /\ \A k \in 1..Len(transactions) :
               /\ transactions[k].row_number - 1 \in RowsKept
               /\ transactions[k].row_number >= 2
               /\ LET cells == RowsRead[transactions[k].row_number - 1]
                  IN  /\ transactions[k].date = PyStr(CellUnder(cells, <<"d", "a", "t", "e">>))
                      /\ transactions[k].merchant = PyStr(CellUnder(cells, <<"m", "e", "r", "c", "h", "a", "n", "t">>))
                      /\ transactions[k].amount = PyStr(CellUnder(cells, <<"a", "m", "o", "u", "n", "t">>))
        /\ \A k \in 1..(Len(transactions) - 1) :
               transactions[k].row_number < transactions[k + 1].row_number

\* a row of blank cells, then a row that is returned with row number 3
RowNumbersFollowRowsReadWitness ==
    /\ ParseReturned
    /\ Len(RowsRead) = 2
    /\ RowIsBlank(RowsRead[1])
    /\ Len(transactions) = 1
    /\ transactions[1].row_number = 3

(***************************************************************************)
(* Claims about termination, checked under SpecSteps                       *)
(***************************************************************************)
CallDone == calls[Caller].pc = "done"

\* the merchant is one for which normalize_merchant returns before its loop
ReturnsBeforeLoop(m) == ~Truthy(m) \/ ~IsStr(m) \/ Len(Strip(m.val)) = 0

\* inside the loop every pair before the index has been scored once and no other;
\* after it every pair has been scored once, or none when the loop was not entered
ScoredOncePerPair ==
    LET c == calls[Caller]
    IN  /\ c.pc = "score" =>
               /\ c.index \in 1..(Len(KnowledgePairs) + 1)
               /\ c.scores = c.index - 1
        /\ c.pc \in {"amount", "return", "done"} =>
               c.scores = IF ReturnsBeforeLoop(c.merchant) THEN 0 ELSE Len(KnowledgePairs)
        /\ c.pc \in {"call", "date", "merchant"} => c.scores = 0

\* the record the steps return is the record of normalize_transaction
StepsReturnTheRecord ==
    CallDone =>
        Deref(calls[Caller].normalized, heap) = Alone(Caller)

\* C27: every call of normalize_transaction, and with it of normalize_date,
\* normalize_merchant and normalize_amount, ends: the call reaches its return
\* whatever the input, the merchant loop computes exactly one score for each
\* (category, keyword) pair of the knowledge base, and the record returned is
\* the one the three normalizers give.
NormalizationTerminates ==
    /\ <>CallDone
    /\ []ScoredOncePerPair
    /\ []StepsReturnTheRecord

NormalizationTerminatesWitness ==
    /\ CallDone
    /\ calls[Caller].merchant = PyStr(<<"S", "T", "A", "R", "B", "U", "C", "K", "S", " ", "#", "1", "2", "3", "4">>)
    /\ calls[Caller].scores = Len(KnowledgePairs)
    /\ calls[Caller].normalized.category = PyStr(<<"s", "t", "a", "r", "b", "u", "c", "k", "s">>)

(***************************************************************************)
(* Claims about the cleaned output, checked under SpecProcess              *)
(***************************************************************************)
\* the index in ts of its k-th valid record
KthValid(ts, k) ==
    CHOOSE i \in ValidIndices(ts) : Cardinality({j \in ValidIndices(ts) : j <= i}) = k

\* the rows are made of the valid records of normalized_results, one each, in order,
\* with a date and an amount that are present
RowsAreTheValidRecords(rows) ==
    /\ Len(rows) = Cardinality(ValidIndices(normalized_results))
    /\ Len(rows) = stats.valid_transactions
    /\ \A k \in 1..Len(rows) :
           LET r == normalized_results[KthValid(normalized_results, k)]
           IN  /\ r.is_valid
               /\ IsStr(r.normalized_date)
               /\ r.normalized_amount.kind = "Decimal"
               /\ rows[k].date = r.normalized_date
               /\ rows[k].merchant = r.normalized_merchant
               /\ rows[k].amount = PyStr(DecimalStr(r.normalized_amount))
               /\ rows[k].category = r.category

IsIsoShape(s) ==
    /\ Len(s) = 10
    /\ s[5] = "-" /\ s[8] = "-"
    /\ \A i \in {1, 2, 3, 4, 6, 7, 9, 10} : IsDigit(s[i])

IsoYear(s) == StrToNat(SubSeq(s, 1, 4))
IsoMonth(s) == StrToNat(SubSeq(s, 6, 7))
IsoDay(s) == StrToNat(SubSeq(s, 9, 10))

\* the argument, trimmed, parsed as the call parses it
DateParsed == DateutilParse(Strip(date.val), current_year)

DateCallParsed ==
    pc = "return" /\ IsStr(date) /\ Len(Strip(date.val)) > 0 /\ DateParsed.ok

DateExample(input, output) == (IsStr(date) /\ date.val = input) => result = output

\* C9: after a successful parse normalize_date returns a date if and only if
\* 1900 <= year <= current year + 1: 1899 and every year beyond current year + 1
\* give None, a date in current year + 1 is accepted.
DateYearWindow ==
    /\ DateCallParsed =>
           /\ IsStr(result) <=> (DateParsed.year >= 1900 /\ DateParsed.year <= current_year + 1)
           /\ ~IsStr(result) => IsNone(result)
    /\ pc = "return" =>
           /\ DateExample(<<"1", "8", "9", "9", "-", "0", "1", "-", "0", "1">>, PyNone)
           /\ DateExample(<<"1", "9", "0", "0", "-", "0", "1", "-", "0", "1">>,
                          PyStr(<<"1", "9", "0", "0", "-", "0", "1", "-", "0", "1">>))
           /\ DateExample(NatToDigits(current_year + 1) \o <<"-", "1", "2", "-", "3", "1">>,
                          PyStr(NatToDigits(current_year + 1) \o <<"-", "1", "2", "-", "3", "1">>))
           /\ DateExample(NatToDigits(current_year + 2) \o <<"-", "0", "1", "-", "0", "1">>, PyNone)

\* a date of next year was parsed and returned
DateYearWindowWitness ==
    DateCallParsed /\ DateParsed.year = current_year + 1 /\ IsStr(result)

\* C10: a calendar-valid ISO string YYYY-MM-DD with 1900 <= year <= current year + 1
\* is returned unchanged, and every returned date, for any input, is a zero-padded
\* YYYY-MM-DD string.
DateIsoIdentity ==
    pc = "return" =>
        /\ (/\ IsStr(date)
            /\ IsIsoShape(date.val)
            /\ IsoYear(date.val) >= 1900 /\ IsoYear(date.val) <= current_year + 1
            /\ IsoMonth(date.val) \in 1..12
            /\ IsoDay(date.val) \in 1..DaysInMonth(IsoYear(date.val), IsoMonth(date.val)))
               => (IsStr(result) /\ result.val = date.val)
        /\ IsStr(result) =>
               /\ IsIsoShape(result.val)
               /\ IsoMonth(result.val) \in 1..12
               /\ IsoDay(result.val) \in 1..DaysInMonth(IsoYear(result.val), IsoMonth(result.val))

\* the leap day 2024-02-29 came back unchanged
DateIsoIdentityWitness ==
    /\ pc = "return"
    /\ IsStr(date)
    /\ date.val = <<"2", "0", "2", "4", "-", "0", "2", "-", "2", "9">>
    /\ IsStr(result)
    /\ result.val = date.val

\* the tokens of the trimmed argument
DateTokens == Tokens(Strip(date.val))

\* a/b/yyyy or a-b-yyyy: two numbers of one or two digits and a four-digit year
IsTwoFieldsThenYear(toks) ==
    /\ IsNumericDate(toks)
    /\ Len(toks[1]) <= 2
    /\ Len(toks[3]) <= 2
    /\ Len(toks[5]) = 4

FieldA == StrToNat(DateTokens[1])
FieldB == StrToNat(DateTokens[3])
FieldYear == StrToNat(DateTokens[5])

IsCalendarDate(y, m, d) == m \in 1..12 /\ d \in 1..DaysInMonth(y, m)

IsoString(y, m, d) ==
    NatToDigits(y) \o <<"-">>
        \o (IF m < 10 THEN <<"0">> ELSE <<>>) \o NatToDigits(m) \o <<"-">>
        \o (IF d < 10 THEN <<"0">> ELSE <<>>) \o NatToDigits(d)

DateCallTwoFieldsThenYear ==
    /\ pc = "return"
    /\ IsStr(date)
    /\ IsTwoFieldsThenYear(DateTokens)
    /\ FieldYear >= 1900 /\ FieldYear <= current_year + 1

\* C11: a/b/yyyy and a-b-yyyy are read month-first whenever month a, day b is a
\* calendar date, day-first only when a > 12, and give None otherwise;
\* 31/12/2023 is December 31 and 15-01-2023 is January 15.
DateMonthFirst ==
    /\ DateCallTwoFieldsThenYear =>
           IF IsCalendarDate(FieldYear, FieldA, FieldB)
           THEN result = PyStr(IsoString(FieldYear, FieldA, FieldB))
           ELSE IF FieldA > 12 /\ IsCalendarDate(FieldYear, FieldB, FieldA)
           THEN result = PyStr(IsoString(FieldYear, FieldB, FieldA))
           ELSE IsNone(result)
    /\ pc = "return" =>
           /\ DateExample(<<"3", "1", "/", "1", "2", "/", "2", "0", "2", "3">>,
                          PyStr(<<"2", "0", "2", "3", "-", "1", "2", "-", "3", "1">>))
           /\ DateExample(<<"1", "5", "-", "0", "1", "-", "2", "0", "2", "3">>,
                          PyStr(<<"2", "0", "2", "3", "-", "0", "1", "-", "1", "5">>))

\* a date both readings accept, returned month-first
DateMonthFirstWitness ==
    /\ DateCallTwoFieldsThenYear
    /\ FieldA # FieldB
    /\ IsCalendarDate(FieldYear, FieldA, FieldB)
    /\ IsCalendarDate(FieldYear, FieldB, FieldA)
    /\ result = PyStr(IsoString(FieldYear, FieldA, FieldB))

\* yyyy-a-b or yyyy/a/b: a four-digit year and two numbers of one or two digits
IsYearThenTwoFields(toks) ==
    /\ IsNumericDate(toks)
    /\ Len(toks[1]) = 4
    /\ Len(toks[3]) <= 2
    /\ Len(toks[5]) <= 2

LeadingYear == StrToNat(DateTokens[1])
LeadingMonth == StrToNat(DateTokens[3])
LeadingDay == StrToNat(DateTokens[5])

DateCallYearFirst ==
    pc = "return" /\ IsStr(date) /\ IsYearThenTwoFields(DateTokens)

\* C12: an input that names no calendar date gives None: a year-first string whose
\* month is not 1..12 or whose day is not a day of that month and year, and a
\* year-last string that is a calendar date in neither reading.  2023-02-29,
\* 2023-13-01 and 2023-01-32 give None; the leap day 2024-02-29 is returned.
DateCalendarValidity ==
    /\ DateCallYearFirst =>
           IF IsCalendarDate(LeadingYear, LeadingMonth, LeadingDay)
                  /\ LeadingYear >= 1900 /\ LeadingYear <= current_year + 1
           THEN result = PyStr(IsoString(LeadingYear, LeadingMonth, LeadingDay))
           ELSE IsNone(result)
    /\ (/\ pc = "return"
        /\ IsStr(date)
        /\ IsTwoFieldsThenYear(DateTokens)
        /\ ~IsCalendarDate(FieldYear, FieldA, FieldB)
        /\ ~IsCalendarDate(FieldYear, FieldB, FieldA)) => IsNone(result)
    /\ pc = "return" =>
           /\ DateExample(<<"2", "0", "2", "3", "-", "0", "2", "-", "2", "9">>, PyNone)
           /\ DateExample(<<"2", "0", "2", "3", "-", "1", "3", "-", "0", "1">>, PyNone)
           /\ DateExample(<<"2", "0", "2", "3", "-", "0", "1", "-", "3", "2">>, PyNone)
           /\ DateExample(<<"2", "0", "2", "4", "-", "0", "2", "-", "2", "9">>,
                          PyStr(<<"2", "0", "2", "4", "-", "0", "2", "-", "2", "9">>))

\* February 29 of a year in the window that is no leap year was refused
DateCalendarValidityWitness ==
    /\ DateCallYearFirst
    /\ LeadingYear >= 1900 /\ LeadingYear <= current_year + 1
    /\ ~IsLeap(LeadingYear)
    /\ LeadingMonth = 2
    /\ LeadingDay = 29
    /\ IsNone(result)

(***************************************************************************)
(* Claims about normalize_amount, checked under SpecAmount                 *)
(***************************************************************************)
RECURSIVE Pow10(_)
Pow10(n) == IF n = 0 THEN 1 ELSE 10 * Pow10(n - 1)

RECURSIVE DigitsToNat(_)
DigitsToNat(ds) ==
    IF Len(ds) = 0 THEN 0 ELSE 10 * DigitsToNat(SubSeq(ds, 1, Len(ds) - 1)) + ds[Len(ds)]

\* the numeric run the call extracts from its argument
AmountMatch == NumericMatch(AmountCleaned(amount.val))

\* the run's digits as a number's digits, and how many of them follow the point
MatchDigits(m) ==
    LET ds == RemoveChars(m, {"."}) IN Coefficient([i \in 1..Len(ds) |-> DigitVal(ds[i])])
FracLen(m) ==
    IF Contains(m, ".") THEN Len(m) - (CHOOSE i \in 1..Len(m) : m[i] = ".") ELSE 0

\* the run's digits make a number below 2 * 10^9
FitsInt(ds) == Len(ds) <= 9 \/ (Len(ds) = 10 /\ ds[1] = 1)

\* x / 10^f rounded to a whole number of cents, an exact half cent going to the even cent
HalfEvenCents(x, f) ==
    IF f <= 2 THEN x * Pow10(2 - f)
    ELSE LET p == Pow10(f - 2)
             q == x \div p
             r == x % p
         IN  IF 2 * r > p \/ (2 * r = p /\ q % 2 = 1) THEN q + 1 ELSE q

\* 1,000,000.00 in cents
LimitCents == DigitsToNat(MaxAmount.digits) * Pow10(2)

AmountExample(input, sign, digits) ==
    amount = PyStr(input) => result = PyDecimal(sign, digits, -2)

\* C7: normalize_amount accepts the closed range [-1,000,000.00, 1,000,000.00]:
\* a value that rounds to exactly +-1,000,000.00 is returned, a rounded value
\* strictly outside the range gives None, and every returned value lies in the range.
AmountRangeClosed ==
    pc = "return" /\ IsStr(amount) /\ Len(AmountMatch) > 0 =>
        LET ds == MatchDigits(AmountMatch)
            f == FracLen(AmountMatch)
        IN  IF FitsInt(ds)
            THEN /\ result.kind = "Decimal" <=> HalfEvenCents(DigitsToNat(ds), f) <= LimitCents
                 /\ result.kind = "Decimal" =>
                        result.exp = -2 /\ DigitsToNat(result.digits) <= LimitCents
                 /\ HalfEvenCents(DigitsToNat(ds), f) > LimitCents => IsNone(result)
            ELSE Len(ds) - f >= 8 /\ IsNone(result)

\* 1000000.005 rounds to the boundary 1,000,000.00 and is returned
AmountRangeClosedWitness ==
    /\ pc = "return"
    /\ IsStr(amount)
    /\ amount.val = <<"1", "0", "0", "0", "0", "0", "0", ".", "0", "0", "5">>
    /\ result = PyDecimal(0, <<1, 0, 0, 0, 0, 0, 0, 0, 0>>, -2)

\* C8: every returned amount has exactly two fraction digits and is the extracted
\* signed decimal rounded to the nearest cent, an exact half cent going to the
\* even cent: 12.3 -> 12.30, 12.345 -> 12.34, 12.346 -> 12.35, 12.355 -> 12.36.
AmountRoundedHalfEven ==
    pc = "return" /\ result.kind = "Decimal" =>
        LET ds == MatchDigits(AmountMatch)
        IN  /\ result.exp = -2
            /\ FitsInt(ds)
            /\ DigitsToNat(result.digits) = HalfEvenCents(DigitsToNat(ds), FracLen(AmountMatch))
            /\ result.sign = (IF AmountIsNegative(amount.val) THEN 1 ELSE 0)
            /\ AmountExample(<<"1", "2", ".", "3">>, 0, <<1, 2, 3, 0>>)
            /\ AmountExample(<<"1", "2", ".", "3", "4", "5">>, 0, <<1, 2, 3, 4>>)
            /\ AmountExample(<<"1", "2", ".", "3", "4", "6">>, 0, <<1, 2, 3, 5>>)
            /\ AmountExample(<<"1", "2", ".", "3", "5", "5">>, 0, <<1, 2, 3, 6>>)

\* the half cent of 12.345 went down to the even cent 12.34
AmountRoundedHalfEvenWitness ==
    /\ pc = "return"
    /\ IsStr(amount)
    /\ amount.val = <<"1", "2", ".", "3", "4", "5">>
    /\ result = PyDecimal(0, <<1, 2, 3, 4>>, -2)

\* the trimmed input starts with '-' or holds a '-' anywhere: removing currency
\* symbols and currency codes removes no '-', so a '-' is left after the removal
\* exactly when the trimmed input holds one
MinusSeen(s) ==
    \/ Len(Strip(s)) > 0 /\ Strip(s)[1] = "-"
    \/ \E i \in 1..Len(Strip(s)) : Strip(s)[i] = "-"

\* the call returned an amount for a string
AmountReturned == pc = "return" /\ IsStr(amount) /\ result.kind = "Decimal"

\* C24 as stated: normalize_amount returns a negative value exactly when the trimmed
\* input starts with '-' or a '-' occurs in the string left after removing currency
\* symbols and codes, and a non-negative value otherwise; "-$25.00", "$-25.00" and
\* "-25.00" give -25.00.
AmountNegativeIffMinus ==
    /\ AmountReturned => (DecimalLess(result, DecimalZero) <=> MinusSeen(amount.val))
    /\ pc = "return" => AmountExample(<<"-", "$", "2", "5", ".", "0", "0">>, 1, <<2, 5, 0, 0>>)
    /\ pc = "return" => AmountExample(<<"$", "-", "2", "5", ".", "0", "0">>, 1, <<2, 5, 0, 0>>)
    /\ pc = "return" => AmountExample(<<"-", "2", "5", ".", "0", "0">>, 1, <<2, 5, 0, 0>>)

\* C24 amended: the returned amount carries the minus sign exactly when a '-' was
\* seen, the sign being put back in front of the extracted run; it is below zero
\* exactly when a '-' was seen and the rounded magnitude is not zero, and a zero
\* magnitude with a '-' gives -0.00, which is not below zero.
AmountSignFollowsMinus ==
    /\ AmountReturned =>
           /\ result.sign = 1 <=> MinusSeen(amount.val)
           /\ DecimalLess(result, DecimalZero)
                  <=> (MinusSeen(amount.val) /\ ~AllZeros(result.digits))
           /\ ~DecimalLess(result, DecimalZero) /\ MinusSeen(amount.val)
                  => result = PyDecimal(1, <<0>>, -2)
           /\ DigitsToNat(result.digits)
                  = HalfEvenCents(DigitsToNat(MatchDigits(AmountMatch)), FracLen(AmountMatch))
    /\ pc = "return" => AmountExample(<<"-", "$", "2", "5", ".", "0", "0">>, 1, <<2, 5, 0, 0>>)
    /\ pc = "return" => AmountExample(<<"$", "-", "2", "5", ".", "0", "0">>, 1, <<2, 5, 0, 0>>)
    /\ pc = "return" => AmountExample(<<"-", "2", "5", ".", "0", "0">>, 1, <<2, 5, 0, 0>>)

\* "-0" was returned as -0.00
AmountSignFollowsMinusWitness ==
    /\ AmountReturned
    /\ amount.val = <<"-", "0">>
    /\ result = PyDecimal(1, <<0>>, -2)

\* s holds one of the currency codes in some letter case
HoldsCurrencyCode(s) ==
    \E i \in 1..(Len(s) - 2) : Upper(SubSeq(s, i, i + 2)) \in CurrencyCodes

\* s holds a currency symbol, a '-' or a ','
HoldsCurrencyMark(s) == \E i \in 1..Len(s) : s[i] \in {"€", "¥", "£", "$", "-", ","}

\* C25: for every input, the string normalize_amount extracts the numeric run from
\* holds none of the symbols (euro, yen, pound, dollar), none of the codes USD, EUR,
\* GBP, JPY in any letter case, no '-' and no ',', in whatever order and however
\* interleaved they are in the input.
AmountCleanedHoldsNoCurrency ==
    pc = "return" /\ IsStr(amount) =>
        /\ ~HoldsCurrencyMark(AmountCleaned(amount.val))
        /\ ~HoldsCurrencyCode(AmountCleaned(amount.val))

\* the symbols, '-' and ',' alone are always gone
AmountCleanedHoldsNoMark ==
    pc = "return" /\ IsStr(amount) => ~HoldsCurrencyMark(AmountCleaned(amount.val))

\* the last position of the unbroken digits of s that start at position i
DigitsEnd(s, i) ==
    CHOOSE k \in (i - 1)..Len(s) :
        /\ \A j \in i..k : IsDigit(s[j])
        /\ k = Len(s) \/ ~IsDigit(s[k + 1])

\* the first contiguous run of s of one or more digits, optionally followed by a
\* decimal point and further digits; s holds a digit
FirstRun(s) ==
    LET first == CHOOSE i \in 1..Len(s) : IsDigit(s[i]) /\ \A j \in 1..(i - 1) : ~IsDigit(s[j])
        whole == DigitsEnd(s, first)
        last == IF whole < Len(s) /\ s[whole + 1] = "." THEN DigitsEnd(s, whole + 2) ELSE whole
    IN  SubSeq(s, first, last)

HoldsDigit(s) == \E i \in 1..Len(s) : IsDigit(s[i])

\* C26: the magnitude normalize_amount returns is that of the first contiguous run,
\* in the stripped string, of one or more digits optionally followed by a decimal
\* point and further digits, everything after the run being ignored; when the
\* stripped string holds no digit the result is absent.
AmountFromFirstRun ==
    pc = "return" /\ IsStr(amount) =>
        LET stripped == AmountCleaned(amount.val)
        IN  IF ~HoldsDigit(stripped) THEN IsNone(result)
            ELSE LET run == FirstRun(stripped)
                     ds == MatchDigits(run)
                 IN  /\ result.kind \in {"Decimal", "None"}
                     /\ result.kind = "Decimal" =>
                            /\ FitsInt(ds)
                            /\ DigitsToNat(result.digits)
                                   = HalfEvenCents(DigitsToNat(ds), FracLen(run))
                     /\ FitsInt(ds) /\ IsNone(result) =>
                            HalfEvenCents(DigitsToNat(ds), FracLen(run)) > LimitCents

\* "12.5.3" gave 12.50: the second point and what follows it were ignored
AmountFromFirstRunWitness ==
    /\ pc = "return"
    /\ IsStr(amount)
    /\ amount.val = <<"1", "2", ".", "5", ".", "3">>
    /\ FirstRun(AmountCleaned(amount.val)) = <<"1", "2", ".", "5">>
    /\ result = PyDecimal(0, <<1, 2, 5, 0>>, -2)

\* a decimal point stands directly before the first digit of s
PointBeforeDigits(s) ==
    /\ HoldsDigit(s)
    /\ LET first == CHOOSE i \in 1..Len(s) : IsDigit(s[i]) /\ \A j \in 1..(i - 1) : ~IsDigit(s[j])
       IN  first > 1 /\ s[first - 1] = "."

\* C28: a decimal point that is not preceded by a digit is not part of the
\* extracted run: when the numeric part starts with '.', the value returned is
\* that of the run that starts at the first digit after the point, never less
\* than the whole number those digits form; ".50" and "$.99" give 50.00 and 99.00.
AmountPointNotInRun ==
    /\ AmountReturned /\ PointBeforeDigits(AmountCleaned(amount.val)) =>
           LET run == FirstRun(AmountCleaned(amount.val))
               whole == DigitsToNat(MatchDigits(DigitRun(run)))
               cents == DigitsToNat(result.digits)
           IN  /\ result.exp = -2
               /\ cents = HalfEvenCents(DigitsToNat(MatchDigits(run)), FracLen(run))
               /\ cents >= 100 * whole
    /\ pc = "return" => AmountExample(<<".", "5", "0">>, 0, <<5, 0, 0, 0>>)
    /\ pc = "return" => AmountExample(<<"$", ".", "9", "9">>, 0, <<9, 9, 0, 0>>)

AmountPointNotInRunWitness ==
    /\ pc = "return"
    /\ amount = PyStr(<<"$", ".", "9", "9">>)
    /\ PointBeforeDigits(AmountCleaned(amount.val))
    /\ result = PyDecimal(0, <<9, 9, 0, 0>>, -2)

====
